---- MODULE Spec2Model ----
(***************************************************************************)
(* A model of the MJPEG/AVI writers of mjpeg-avi-rs: the synchronous       *)
(* MjpegWriter (mjpeg_sync.rs), the asynchronous MjpegAsyncWriter          *)
(* (mjpeg_async.rs), the single-buffer MjpegWriter of lib.rs, the sink     *)
(* adapters of writer.rs and the size arithmetic of common.rs.             *)
(*                                                                         *)
(* Numbers.  TLC's integers stop at 2^31 - 1, and the program compares     *)
(* sizes with 2^31 - 1 and 2^32 - 1, so every size, length, offset and     *)
(* count of bytes is a pair <<hi, lo>> standing for hi * 65536 + lo with   *)
(* 0 <= lo < 65536.  A u32 is a pair with hi < 65536.                      *)
(*                                                                         *)
(* Bytes.  A byte string is a sequence of items <<block, count>>: the      *)
(* bytes of block (a non-empty sequence of 0..255) repeated count times.   *)
(* An item is a literal (count 1), a run (one byte, RunMin times or more)  *)
(* or a repetition of a longer block (count 2 or more).  Strings are kept  *)
(* normalised: every maximal run of RunMin or more equal bytes is one run  *)
(* item and the bytes between two runs are one literal, so two strings     *)
(* without repetition items are equal as values exactly when they are      *)
(* equal byte for byte.  Repetition items only describe the chunks of a    *)
(* writer that has already run for a long time.                            *)
(***************************************************************************)
EXTENDS Integers, Sequences, FiniteSets, TLC

----------------------------------------------------------------------------
(* `let v = ...;` followed by the rest of a function body: In applied to   *)
(* the value bound                                                         *)

Bind(v, In(_)) == In(v)

----------------------------------------------------------------------------
(* Wide non-negative integers *)

U(n) == <<n \div 65536, n % 65536>>

Zero == <<0, 0>>

Add(a, b) ==
    LET s == a[2] + b[2]
    IN  <<a[1] + b[1] + (s \div 65536), s % 65536>>

\* a - b for a >= b
Sub(a, b) ==
    LET d == a[2] - b[2]
    IN  IF d >= 0 THEN <<a[1] - b[1], d>> ELSE <<a[1] - b[1] - 1, d + 65536>>

Lt(a, b) == a[1] < b[1] \/ (a[1] = b[1] /\ a[2] < b[2])

Le(a, b) == ~Lt(b, a)

Gt(a, b) == Lt(b, a)

IsOdd(a) == a[2] % 2 = 1

\* a * k for a small factor 0 <= k < 2^15
MulSmall(a, k) ==
    LET p == a[2] * k
    IN  <<a[1] * k + (p \div 65536), p % 65536>>

\* a \div k and a % k for a small divisor 0 < k < 2^15
DivSmall(a, k) ==
    LET r == a[1] % k
    IN  <<a[1] \div k, (r * 65536 + a[2]) \div k>>

ModSmall(a, k) == ((a[1] % k) * 65536 + a[2]) % k

\* the value as a TLC integer, for values below 2^31
Small(a) == a[1] * 65536 + a[2]

U32_MAX == <<65535, 65535>>

\* `x as u32`: the value modulo 2^32
as_u32(a) == <<a[1] % 65536, a[2]>>

\* u32::checked_add: [some, v], some = FALSE standing for None
checked_add_u32(a, b) ==
    LET s == Add(a, b) IN [some |-> ~Gt(s, U32_MAX), v |-> s]

\* u32::to_le_bytes
to_le_bytes(a) ==
    <<a[2] % 256, a[2] \div 256, a[1] % 256, (a[1] \div 256) % 256>>

\* u32::from_le_bytes, to read a field back
from_le_bytes(b) == <<b[3] + 256 * b[4], b[1] + 256 * b[2]>>

----------------------------------------------------------------------------
(* Byte strings *)

\* equal bytes from this many on are kept as a run
RunMin == 64

ItemLen(it) == MulSmall(it[2], Len(it[1]))

IsLiteral(it) == it[2] = U(1)

IsRun(it) == Len(it[1]) = 1 /\ it[2] # U(1)

\* the number of leading elements of the sequence s that equal b
Lead(s, b) ==
    CHOOSE k \in 0..Len(s) :
        /\ \A i \in 1..k : s[i] = b
        /\ k = Len(s) \/ s[k + 1] # b

\* the number of trailing elements of the sequence s that equal b
Trail(s, b) ==
    CHOOSE k \in 0..Len(s) :
        /\ \A i \in 1..k : s[Len(s) + 1 - i] = b
        /\ k = Len(s) \/ s[Len(s) - k] # b

\* the sequence s as a literal item, nothing when it is empty
LitItem(s) == IF s = <<>> THEN <<>> ELSE << <<s, U(1)>> >>

\* n bytes of value b
Fill(b, n) ==
    IF n = Zero THEN <<>>
    ELSE IF Lt(n, U(RunMin)) THEN LitItem([k \in 1..Small(n) |-> b])
    ELSE << <<(<<b>>), n>> >>

\* two literal blocks s and t side by side, c the last byte of s, n the
\* number of bytes c that end s and l the number that begin t
GlueLiterals(s, t, c, n, l) ==
    IF n + l >= RunMin
    THEN LitItem(SubSeq(s, 1, Len(s) - n)) \o << <<(<<c>>), U(n + l)>> >>
            \o LitItem(SubSeq(t, l + 1, Len(t)))
    ELSE LitItem(s \o t)

\* a run a followed by a literal block t that begins with l bytes of the run
GlueRunLiteral(a, t, l) ==
    IF l = 0 THEN <<a, <<t, U(1)>> >>
    ELSE << <<a[1], Add(a[2], U(l))>> >> \o LitItem(SubSeq(t, l + 1, Len(t)))

\* a literal block s that ends with n bytes of the run b that follows it
GlueLiteralRun(s, b, n) ==
    IF n = 0 THEN << <<s, U(1)>>, b>>
    ELSE LitItem(SubSeq(s, 1, Len(s) - n)) \o << <<b[1], Add(b[2], U(n))>> >>

\* the items that the adjacent items a and b make
Glue(a, b) ==
    IF IsLiteral(a) /\ IsLiteral(b)
    THEN GlueLiterals(a[1], b[1], a[1][Len(a[1])],
                      Trail(a[1], a[1][Len(a[1])]), Lead(b[1], a[1][Len(a[1])]))
    ELSE IF IsRun(a) /\ IsLiteral(b) THEN GlueRunLiteral(a, b[1], Lead(b[1], a[1][1]))
    ELSE IF IsLiteral(a) /\ IsRun(b) THEN GlueLiteralRun(a[1], b, Trail(a[1], b[1][1]))
    ELSE IF IsRun(a) /\ IsRun(b) /\ a[1] = b[1] THEN << <<a[1], Add(a[2], b[2])>> >>
    ELSE <<a, b>>

\* the concatenation of two normalised strings, normalised
Cat(x, y) ==
    IF x = <<>> THEN y
    ELSE IF y = <<>> THEN x
    ELSE SubSeq(x, 1, Len(x) - 1) \o Glue(x[Len(x)], y[1]) \o SubSeq(y, 2, Len(y))

\* Recursions over a string split it in halves: the depth stays logarithmic.
RECURSIVE LitRange(_, _, _)
LitRange(s, lo, hi) ==
    IF hi - lo + 1 < RunMin THEN LitItem(SubSeq(s, lo, hi))
    ELSE LET mid == (lo + hi) \div 2
         IN  Cat(LitRange(s, lo, mid), LitRange(s, mid + 1, hi))

\* the byte string of an explicit sequence of bytes
Lit(s) == LitRange(s, 1, Len(s))

RECURSIVE BLenRange(_, _, _)
BLenRange(x, lo, hi) ==
    IF lo > hi THEN Zero
    ELSE IF lo = hi THEN ItemLen(x[lo])
    ELSE LET mid == (lo + hi) \div 2
         IN  Add(BLenRange(x, lo, mid), BLenRange(x, mid + 1, hi))

\* the number of bytes of a string
BLen(x) == BLenRange(x, 1, Len(x))

\* q copies of a block
Copies(block, q) ==
    IF q = Zero THEN <<>>
    ELSE IF Len(block) = 1 THEN Fill(block[1], q)
    ELSE IF q = U(1) THEN Lit(block)
    ELSE << <<block, q>> >>

\* the first n bytes of one item, 0 < n < ItemLen(it)
ItemTake(it, n) ==
    LET q == DivSmall(n, Len(it[1]))
        r == ModSmall(n, Len(it[1]))
    IN  Cat(Copies(it[1], q), Lit(SubSeq(it[1], 1, r)))

\* one item without its first n bytes, 0 < n < ItemLen(it)
ItemDrop(it, n) ==
    LET q == DivSmall(n, Len(it[1]))
        r == ModSmall(n, Len(it[1]))
        used == IF r = 0 THEN q ELSE Add(q, U(1))
    IN  Cat(IF r = 0 THEN <<>> ELSE Lit(SubSeq(it[1], r + 1, Len(it[1]))),
            Copies(it[1], Sub(it[2], used)))

\* the first n bytes of the items lo..hi of x
RECURSIVE BTakeRange(_, _, _, _)
BTakeRange(x, lo, hi, n) ==
    IF lo > hi \/ n = Zero THEN <<>>
    ELSE IF lo = hi
    THEN IF Le(ItemLen(x[lo]), n) THEN <<x[lo]>> ELSE ItemTake(x[lo], n)
    ELSE LET mid == (lo + hi) \div 2
             l == BLenRange(x, lo, mid)
         IN  IF Le(n, l) THEN BTakeRange(x, lo, mid, n)
             ELSE Cat(SubSeq(x, lo, mid), BTakeRange(x, mid + 1, hi, Sub(n, l)))

\* the first n bytes of x (all of x when it is shorter)
BTake(x, n) == BTakeRange(x, 1, Len(x), n)

\* the items lo..hi of x without their first n bytes
RECURSIVE BDropRange(_, _, _, _)
BDropRange(x, lo, hi, n) ==
    IF lo > hi THEN <<>>
    ELSE IF n = Zero THEN SubSeq(x, lo, hi)
    ELSE IF lo = hi
    THEN IF Le(ItemLen(x[lo]), n) THEN <<>> ELSE ItemDrop(x[lo], n)
    ELSE LET mid == (lo + hi) \div 2
             l == BLenRange(x, lo, mid)
         IN  IF Le(l, n) THEN BDropRange(x, mid + 1, hi, Sub(n, l))
             ELSE Cat(BDropRange(x, lo, mid, n), SubSeq(x, mid + 1, hi))

\* x without its first n bytes (empty when x is shorter)
BDrop(x, n) == BDropRange(x, 1, Len(x), n)

\* the n bytes of x from offset off
Slice(x, off, n) == BTake(BDrop(x, off), n)

\* the bytes of one short item, written out
ItemBytes(it) ==
    [k \in 1..(Small(it[2]) * Len(it[1])) |-> it[1][((k - 1) % Len(it[1])) + 1]]

RECURSIVE ExpandRange(_, _, _)
ExpandRange(x, lo, hi) ==
    IF lo > hi THEN <<>>
    ELSE IF lo = hi THEN ItemBytes(x[lo])
    ELSE LET mid == (lo + hi) \div 2
         IN  ExpandRange(x, lo, mid) \o ExpandRange(x, mid + 1, hi)

\* a short string as an explicit sequence of bytes
Expand(x) == ExpandRange(x, 1, Len(x))

\* the 4-byte little-endian field at a small offset
Field(x, off) == from_le_bytes(Expand(Slice(x, U(off), U(4))))

\* the 4-byte little-endian field at any offset
FieldAt(x, off) == from_le_bytes(Expand(Slice(x, off, U(4))))

RECURSIVE CatAllFrom(_, _)
CatAllFrom(bufs, i) ==
    IF i > Len(bufs) THEN <<>> ELSE Cat(bufs[i], CatAllFrom(bufs, i + 1))

\* the concatenation of a sequence of strings
CatAll(bufs) == CatAllFrom(bufs, 1)

----------------------------------------------------------------------------
(* Vec<u32> frame_sizes: a sequence of runs <<value, n>>, n >= 1 equal      *)
(* consecutive elements, adjacent runs holding different values            *)

RECURSIVE VecLenFrom(_, _)
VecLenFrom(v, i) == IF i > Len(v) THEN 0 ELSE v[i][2] + VecLenFrom(v, i + 1)

\* Vec::len
VecLen(v) == VecLenFrom(v, 1)

\* Vec::push
VecPush(v, e) ==
    IF v # <<>> /\ v[Len(v)][1] = e
    THEN [v EXCEPT ![Len(v)] = <<e, v[Len(v)][2] + 1>>]
    ELSE Append(v, <<e, 1>>)

RECURSIVE VecElemsFrom(_, _)
VecElemsFrom(v, i) ==
    IF i > Len(v) THEN <<>>
    ELSE [k \in 1..v[i][2] |-> v[i][1]] \o VecElemsFrom(v, i + 1)

\* the elements in order, as an explicit sequence (for short vectors)
VecElems(v) == VecElemsFrom(v, 1)

----------------------------------------------------------------------------
(* common.rs *)

MAX_AVI_FILE_SIZE == U(2147483647)

MAX_FRAME_COUNT == 1000000

\* b"00dc"
FOURCC_00dc == <<48, 48, 100, 99>>

\* b"idx1"
FOURCC_idx1 == <<105, 100, 120, 49>>

create_frame_chunk_header(size) == FOURCC_00dc \o to_le_bytes(size)

\* the entry with no flags set
create_index_entry_without_flags(offset, size) ==
    FOURCC_00dc \o to_le_bytes(Zero) \o to_le_bytes(offset) \o to_le_bytes(size)

\* the entry with its last two fields in the other order
create_index_entry_size_first(offset, size) ==
    FOURCC_00dc \o to_le_bytes(U(16)) \o to_le_bytes(size) \o to_le_bytes(offset)

create_index_entry(offset, size) ==
    FOURCC_00dc \o to_le_bytes(U(16)) \o to_le_bytes(offset) \o to_le_bytes(size)

create_idx_header(index_size) == FOURCC_idx1 \o to_le_bytes(index_size)

\* u64::checked_add: no sum of the model comes near 2^64, so it never is None
checked_add_u64(a, b) == Add(a, b)

\* Result<FileSizes>: [result, total_file_size, movi_size, index_size], the
\* sizes being meaningful when result = "Ok"
calculate_file_sizes(frame_sizes, jpeg_total_size) ==
    LET frame_count == VecLen(frame_sizes)
        index_size == U(frame_count * 16)
        total_file_size ==
            checked_add_u64(checked_add_u64(U(256), jpeg_total_size),
                            U(frame_count * (8 + 16)))
        movi_size ==
            checked_add_u64(checked_add_u64(U(4), jpeg_total_size),
                            U(frame_count * 8))
        result ==
            IF Gt(U(frame_count), U32_MAX) THEN "FrameCountExceeded"
            ELSE IF Gt(index_size, U32_MAX) THEN "FileSizeExceeded"
            ELSE IF Gt(total_file_size, U32_MAX) THEN "FileSizeExceeded"
            ELSE IF Gt(movi_size, U32_MAX) THEN "FileSizeExceeded"
            ELSE "Ok"
    IN  [result |-> result,
         total_file_size |-> as_u32(total_file_size),
         movi_size |-> as_u32(movi_size),
         index_size |-> as_u32(index_size)]

AVI_HEADER_TEMPLATE ==
    << 82, 73, 70, 70, 0, 0, 0, 0, 65, 86, 73, 32, 76, 73, 83, 84,
       224, 0, 0, 0, 104, 100, 114, 108, 97, 118, 105, 104, 56, 0, 0, 0,
       0, 0, 0, 0, 88, 27, 0, 0, 0, 0, 0, 0, 16, 0, 0, 0,
       0, 0, 0, 0, 0, 0, 0, 0, 1, 0, 0, 0, 0, 0, 0, 0,
       0, 0, 0, 0, 0, 0, 0, 0, 0, 0, 0, 0, 0, 0, 0, 0,
       0, 0, 0, 0, 0, 0, 0, 0, 76, 73, 83, 84, 148, 0, 0, 0,
       115, 116, 114, 108, 115, 116, 114, 104, 64, 0, 0, 0, 118, 105, 100, 115,
       77, 74, 80, 71, 0, 0, 0, 0, 0, 0, 0, 0, 0, 0, 0, 0,
       1, 0, 0, 0, 0, 0, 0, 0, 0, 0, 0, 0, 0, 0, 0, 0,
       0, 0, 0, 0, 0, 0, 0, 0, 0, 0, 0, 0, 0, 0, 0, 0,
       0, 0, 0, 0, 0, 0, 0, 0, 0, 0, 0, 0, 115, 116, 114, 102,
       40, 0, 0, 0, 40, 0, 0, 0, 0, 0, 0, 0, 0, 0, 0, 0,
       1, 0, 24, 0, 77, 74, 80, 71, 0, 0, 0, 0, 0, 0, 0, 0,
       0, 0, 0, 0, 0, 0, 0, 0, 0, 0, 0, 0, 76, 73, 83, 84,
       16, 0, 0, 0, 111, 100, 109, 108, 100, 109, 108, 104, 4, 0, 0, 0,
       0, 0, 0, 0, 76, 73, 83, 84, 0, 0, 0, 0, 109, 111, 118, 105 >>

\* p * q for 0 <= p, q < 65536
LimbMul(p, q) == Add(MulSmall(U(p * (q \div 256)), 256), U(p * (q % 256)))

\* u32 * u32: does the product exceed u32::MAX
mul_overflows_u32(a, b) ==
    LET low == LimbMul(a[2], b[2])
        cross == Add(Add(LimbMul(a[1], b[2]), LimbMul(a[2], b[1])), U(low[1]))
    IN  (a[1] # 0 /\ b[1] # 0) \/ cross[1] # 0

\* u32 * u32 modulo 2^32
wrapping_mul_u32(a, b) ==
    LET low == LimbMul(a[2], b[2])
        cross == Add(Add(LimbMul(a[1], b[2]), LimbMul(a[2], b[1])), U(low[1]))
    IN  <<cross[2], low[2]>>

\* the quotient rounded up
microsec_per_frame_rounded_up(fps) ==
    IF Gt(fps, U(1000000)) THEN U(1)
    ELSE U((1000000 + Small(fps) - 1) \div Small(fps))

\* 1_000_000 / fps on u32, fps > 0
microsec_per_frame(fps) ==
    IF Gt(fps, U(1000000)) THEN Zero ELSE U(1000000 \div Small(fps))

\* ((width * 24 / 8 + 3) & 0xFFFFFFFC) * height with wrapping u32 arithmetic
bi_size_image(width, height) ==
    LET a == wrapping_mul_u32(width, U(24))
        b == Add(DivSmall(a, 8), U(3))
        c == <<b[1], b[2] - (b[2] % 4)>>
    IN  wrapping_mul_u32(c, height)

\* does width * 24 or the stride times height overflow u32 (a panic where
\* overflow checks are compiled in, a wrapped product where they are not)
bi_size_image_overflows(width, height) ==
    LET a == wrapping_mul_u32(width, U(24))
        b == Add(DivSmall(a, 8), U(3))
        c == <<b[1], b[2] - (b[2] % 4)>>
    IN  mul_overflows_u32(width, U(24)) \/ mul_overflows_u32(c, height)

\* header[lo..lo + 4].copy_from_slice(bytes), lo a 0-based offset
copy_from_slice(header, lo, bytes) ==
    [i \in 1..Len(header) |->
        IF i > lo /\ i <= lo + Len(bytes) THEN bytes[i - lo] ELSE header[i]]

create_header_template(fps, width, height) ==
    LET h0 == AVI_HEADER_TEMPLATE
        h1 == copy_from_slice(h0, 32, to_le_bytes(microsec_per_frame(fps)))
        h2 == copy_from_slice(h1, 64, to_le_bytes(width))
        h3 == copy_from_slice(h2, 68, to_le_bytes(height))
        h4 == copy_from_slice(h3, 128, to_le_bytes(fps))
        h5 == copy_from_slice(h4, 164, to_le_bytes(width))
        h6 == copy_from_slice(h5, 168, to_le_bytes(height))
        h7 == copy_from_slice(h6, 184, to_le_bytes(width))
        h8 == copy_from_slice(h7, 188, to_le_bytes(height))
    IN  copy_from_slice(h8, 200, to_le_bytes(bi_size_image(width, height)))

----------------------------------------------------------------------------
(* The sink.  A sink is [data, pos]: its content and its position.  What a *)
(* call of the sink does is the environment's choice, an outcome           *)
(* [kind, cut]: "ok" (the call does all it was asked), "err" (it fails;    *)
(* a write_all may have put cut bytes out before failing) or "short" (a    *)
(* single vectored write accepts only cut bytes and reports success, as    *)
(* std::io::Write::write_vectored may).  A script [at, o] gives outcome o  *)
(* to the at-th sink call of an operation and "ok" to the others.          *)

Okay == [kind |-> "ok", cut |-> 0]

NoFault == [at |-> 0, o |-> Okay]

OutcomeAt(io, k) == IF io.at = k THEN io.o ELSE Okay

MinNum(a, b) == IF Lt(a, b) THEN a ELSE b

\* the sink takes `bytes` at its position (std::io::Cursor over a Vec, a file)
SinkPut(sink, bytes) ==
    Bind(BLen(bytes), LAMBDA n :
    IF n = Zero THEN sink ELSE
    Bind(BLen(sink.data), LAMBDA len :
    [data |-> Cat(Cat(IF Le(sink.pos, len) THEN BTake(sink.data, sink.pos)
                      ELSE Cat(sink.data, Fill(0, Sub(sink.pos, len))),
                      bytes),
                  BDrop(sink.data, Add(sink.pos, n))),
     pos |-> Add(sink.pos, n)]))

\* std::io::Write::write_all / AsyncWriteExt::write_all: everything is
\* written, or the call fails after a proper prefix
io_write_all(sink, buf, o) ==
    LET failed == o.kind = "err" /\ buf # <<>>
    IN  [sink |-> SinkPut(sink, IF failed
                                THEN BTake(buf, MinNum(U(o.cut), Sub(BLen(buf), U(1))))
                                ELSE buf),
         result |-> IF failed THEN "Io" ELSE "Ok"]

\* std::io::Write::write_vectored / AsyncWriteExt::write_vectored: one write
\* that takes a prefix of the buffers and returns its length, or fails
io_write_vectored(sink, bufs, o) ==
    IF o.kind = "err" THEN [sink |-> sink, result |-> "Io", n |-> Zero] ELSE
    Bind(CatAll(bufs), LAMBDA all :
    Bind(IF o.kind = "short" THEN BTake(all, U(o.cut)) ELSE all, LAMBDA taken :
    [sink |-> SinkPut(sink, taken), result |-> "Ok", n |-> BLen(taken)]))

\* std::io::Seek::seek(SeekFrom::Start(pos))
io_seek(sink, pos, o) ==
    IF o.kind = "err" THEN [sink |-> sink, result |-> "Io"]
    ELSE [sink |-> [sink EXCEPT !.pos = pos], result |-> "Ok"]

----------------------------------------------------------------------------
(* writer.rs: impl<W: std::io::Write + std::io::Seek> Writer for W *)

Writer_write_all(sink, buf, o) == io_write_all(sink, buf, o)

\* the count write_vectored returns is mapped to ()
Writer_write_all_vectored(sink, bufs, o) ==
    Bind(io_write_vectored(sink, bufs, o), LAMBDA w :
    [sink |-> w.sink, result |-> w.result])

Writer_seek(sink, pos, o) == io_seek(sink, pos, o)

----------------------------------------------------------------------------
(* mjpeg_sync.rs.  A writer is the record self of the struct's fields;    *)
(* every operation returns [self, result], result being "Ok" or the error. *)

\* bufs.iter().map(|s| s.len()).sum()
RECURSIVE SumLenFrom(_, _)
SumLenFrom(bufs, i) ==
    IF i > Len(bufs) THEN Zero ELSE Add(BLen(bufs[i]), SumLenFrom(bufs, i + 1))

total_len(bufs) == SumLenFrom(bufs, 1)

\* if frame_size % 2 == 1 { frame_size + 1 } else { frame_size }
padded(frame_size) == IF IsOdd(frame_size) THEN Add(frame_size, U(1)) ELSE frame_size

\* the checks without the one of the projected file size
check_limits_without_file_size(self, frame_size) ==
    IF VecLen(self.frame_sizes) >= MAX_FRAME_COUNT THEN "FrameCountExceeded"
    ELSE IF Gt(frame_size, U32_MAX) THEN "FrameSizeExceeded"
    ELSE "Ok"

check_limits(self, frame_size) ==
    IF VecLen(self.frame_sizes) >= MAX_FRAME_COUNT THEN "FrameCountExceeded"
    ELSE IF Gt(frame_size, U32_MAX) THEN "FrameSizeExceeded"
    ELSE LET padded_size == padded(frame_size)
             new_frame_data_size == Add(U(8), padded_size)
             new_index_size == U(16)
             estimated_new_size ==
                 Add(Add(self.estimated_file_size, new_frame_data_size), new_index_size)
         IN  IF Gt(estimated_new_size, MAX_AVI_FILE_SIZE) THEN "FileSizeExceeded"
             ELSE "Ok"

\* `?` on a sink call w that failed inside a method of the writer: the
\* error is returned, the sink is as the call left it
Failed(self, w) == [self |-> [self EXCEPT !.writer = w.sink], result |-> w.result]

\* the updates with the chunk header counted into jpeg_total_size
record_frame_total_with_header(self, sink, padded_size) ==
    [writer |-> sink,
     frame_sizes |-> VecPush(self.frame_sizes, as_u32(padded_size)),
     jpeg_total_size |-> Add(self.jpeg_total_size, Add(U(8), padded_size)),
     estimated_file_size |->
         Add(self.estimated_file_size, Add(Add(U(8), padded_size), U(16)))]

\* the three updates after the write of the chunk
record_frame(self, sink, padded_size) ==
    [writer |-> sink,
     frame_sizes |-> VecPush(self.frame_sizes, as_u32(padded_size)),
     jpeg_total_size |-> Add(self.jpeg_total_size, padded_size),
     estimated_file_size |->
         Add(self.estimated_file_size, Add(Add(U(8), padded_size), U(16)))]

\* the append without its test of the total length
add_frame_vectored_without_empty_check(self, bufs, io) ==
    Bind(total_len(bufs), LAMBDA frame_size :
    Bind(check_limits(self, frame_size), LAMBDA lim :
    IF lim # "Ok" THEN [self |-> self, result |-> lim] ELSE
    Bind(padded(frame_size), LAMBDA padded_size :
    Bind(<<Lit(create_frame_chunk_header(as_u32(padded_size)))>> \o bufs
            \o (IF IsOdd(frame_size) THEN <<Lit(<<0>>)>> ELSE <<>>),
         LAMBDA bufs_to_write :
    Bind(Writer_write_all_vectored(self.writer, bufs_to_write, OutcomeAt(io, 1)),
         LAMBDA w :
    IF w.result # "Ok" THEN Failed(self, w) ELSE
    [self |-> record_frame(self, w.sink, padded_size), result |-> "Ok"])))))

\* the append with its admission check made after the write of the chunk
add_frame_vectored_check_after_write(self, bufs, io) ==
    Bind(total_len(bufs), LAMBDA frame_size :
    IF frame_size = Zero THEN [self |-> self, result |-> "InvalidFrameSize"] ELSE
    Bind(padded(frame_size), LAMBDA padded_size :
    Bind(<<Lit(create_frame_chunk_header(as_u32(padded_size)))>> \o bufs
            \o (IF IsOdd(frame_size) THEN <<Lit(<<0>>)>> ELSE <<>>),
         LAMBDA bufs_to_write :
    Bind(Writer_write_all_vectored(self.writer, bufs_to_write, OutcomeAt(io, 1)),
         LAMBDA w :
    IF w.result # "Ok" THEN Failed(self, w) ELSE
    Bind(check_limits(self, frame_size), LAMBDA lim :
    IF lim # "Ok" THEN [self |-> [self EXCEPT !.writer = w.sink], result |-> lim] ELSE
    [self |-> record_frame(self, w.sink, padded_size), result |-> "Ok"])))))

add_frame_vectored(self, bufs, io) ==
    Bind(total_len(bufs), LAMBDA frame_size :
    IF frame_size = Zero THEN [self |-> self, result |-> "InvalidFrameSize"] ELSE
    Bind(check_limits(self, frame_size), LAMBDA lim :
    IF lim # "Ok" THEN [self |-> self, result |-> lim] ELSE
    Bind(IsOdd(frame_size), LAMBDA odd :
    Bind(padded(frame_size), LAMBDA padded_size :
    Bind(as_u32(padded_size), LAMBDA padded_size_u32 :
    Bind(create_frame_chunk_header(padded_size_u32), LAMBDA chunk_header :
    Bind(<<Lit(chunk_header)>> \o bufs \o (IF odd THEN <<Lit(<<0>>)>> ELSE <<>>),
         LAMBDA bufs_to_write :
    Bind(Writer_write_all_vectored(self.writer, bufs_to_write, OutcomeAt(io, 1)),
         LAMBDA w :
    IF w.result # "Ok" THEN Failed(self, w) ELSE
    [self |-> record_frame(self, w.sink, padded_size), result |-> "Ok"]))))))))

\* an add_frame that writes the frame as it is given, without padding
add_frame_unpadded(self, jpeg_binary, io) ==
    Bind(BLen(jpeg_binary), LAMBDA frame_size :
    IF frame_size = Zero THEN [self |-> self, result |-> "InvalidFrameSize"] ELSE
    Bind(check_limits(self, frame_size), LAMBDA lim :
    IF lim # "Ok" THEN [self |-> self, result |-> lim] ELSE
    Bind(<<Lit(create_frame_chunk_header(as_u32(frame_size))), jpeg_binary>>,
         LAMBDA bufs_to_write :
    Bind(Writer_write_all_vectored(self.writer, bufs_to_write, OutcomeAt(io, 1)),
         LAMBDA w :
    IF w.result # "Ok" THEN Failed(self, w) ELSE
    [self |-> record_frame(self, w.sink, frame_size), result |-> "Ok"]))))

add_frame(self, jpeg_binary, io) == add_frame_vectored(self, <<jpeg_binary>>, io)

\* for &size in &self.frame_sizes: the entry of frame j is the (1 + j)-th
\* sink call of finish
RECURSIVE index_loop(_, _, _, _, _)
index_loop(sink, sizes, j, offset, io) ==
    IF j > Len(sizes) THEN [sink |-> sink, result |-> "Ok"] ELSE
    Bind(create_index_entry(offset, sizes[j]), LAMBDA entry :
    Bind(Writer_write_all(sink, Lit(entry), OutcomeAt(io, 1 + j)), LAMBDA w :
    IF w.result # "Ok" THEN w ELSE
    Bind(checked_add_u32(offset, U(8)), LAMBDA o :
    IF ~o.some THEN [sink |-> w.sink, result |-> "FileSizeExceeded"] ELSE
    Bind(checked_add_u32(o.v, sizes[j]), LAMBDA next :
    IF ~next.some THEN [sink |-> w.sink, result |-> "FileSizeExceeded"] ELSE
    index_loop(w.sink, sizes, j + 1, next.v, io)))))

\* the patches without the one of the stream length at 140
RECURSIVE patch_loop_without_length(_, _, _, _, _)
patch_loop_without_length(sink, sizes, p, base, io) ==
    IF p > Len(sizes) THEN [sink |-> sink, result |-> "Ok"] ELSE
    IF sizes[p][1] = 140 THEN patch_loop_without_length(sink, sizes, p + 1, base, io) ELSE
    Bind(Writer_seek(sink, U(sizes[p][1]), OutcomeAt(io, base + 2 * p - 1)), LAMBDA sk :
    IF sk.result # "Ok" THEN sk ELSE
    Bind(Writer_write_all(sk.sink, Lit(sizes[p][2]), OutcomeAt(io, base + 2 * p)),
         LAMBDA w :
    IF w.result # "Ok" THEN w ELSE
    patch_loop_without_length(w.sink, sizes, p + 1, base, io)))

\* the patches with the result of the seek ignored
RECURSIVE patch_loop_past_failed_seek(_, _, _, _, _)
patch_loop_past_failed_seek(sink, sizes, p, base, io) ==
    IF p > Len(sizes) THEN [sink |-> sink, result |-> "Ok"] ELSE
    Bind(Writer_seek(sink, U(sizes[p][1]), OutcomeAt(io, base + 2 * p - 1)), LAMBDA sk :
    Bind(Writer_write_all(sk.sink, Lit(sizes[p][2]), OutcomeAt(io, base + 2 * p)),
         LAMBDA w :
    IF w.result # "Ok" THEN w ELSE
    IF sk.result # "Ok" THEN [sink |-> w.sink, result |-> sk.result] ELSE
    patch_loop_past_failed_seek(w.sink, sizes, p + 1, base, io)))

\* for (pos, bytes) in sizes: the p-th patch is the sink calls
\* base + 2p - 1 (seek) and base + 2p (write_all)
RECURSIVE patch_loop(_, _, _, _, _)
patch_loop(sink, sizes, p, base, io) ==
    IF p > Len(sizes) THEN [sink |-> sink, result |-> "Ok"] ELSE
    Bind(Writer_seek(sink, U(sizes[p][1]), OutcomeAt(io, base + 2 * p - 1)), LAMBDA sk :
    IF sk.result # "Ok" THEN sk ELSE
    Bind(Writer_write_all(sk.sink, Lit(sizes[p][2]), OutcomeAt(io, base + 2 * p)),
         LAMBDA w :
    IF w.result # "Ok" THEN w ELSE
    patch_loop(w.sink, sizes, p + 1, base, io)))

\* a finish that writes the idx1 header before it computes the sizes
finish_index_before_sizes(self, io) ==
    Bind(VecLen(self.frame_sizes), LAMBDA frame_count :
    Bind(calculate_file_sizes(self.frame_sizes, self.jpeg_total_size), LAMBDA file_sizes :
    Bind(create_idx_header(file_sizes.index_size), LAMBDA idx_header :
    Bind(Writer_write_all(self.writer, Lit(idx_header), OutcomeAt(io, 1)), LAMBDA w1 :
    IF w1.result # "Ok" THEN Failed(self, w1) ELSE
    IF file_sizes.result # "Ok"
    THEN [self |-> [self EXCEPT !.writer = w1.sink], result |-> file_sizes.result] ELSE
    Bind(index_loop(w1.sink, VecElems(self.frame_sizes), 1, U(4), io), LAMBDA w2 :
    IF w2.result # "Ok" THEN Failed(self, w2) ELSE
    Bind(as_u32(U(frame_count)), LAMBDA frame_count_u32 :
    Bind(<< <<4, to_le_bytes(file_sizes.total_file_size)>>,
            <<48, to_le_bytes(frame_count_u32)>>,
            <<140, to_le_bytes(frame_count_u32)>>,
            <<240, to_le_bytes(frame_count_u32)>>,
            <<248, to_le_bytes(file_sizes.movi_size)>> >>, LAMBDA sizes :
    Failed(self, patch_loop(w2.sink, sizes, 1, 1 + frame_count, io)))))))))

finish(self, io) ==
    Bind(VecLen(self.frame_sizes), LAMBDA frame_count :
    Bind(calculate_file_sizes(self.frame_sizes, self.jpeg_total_size), LAMBDA file_sizes :
    IF file_sizes.result # "Ok" THEN [self |-> self, result |-> file_sizes.result] ELSE
    Bind(create_idx_header(file_sizes.index_size), LAMBDA idx_header :
    Bind(Writer_write_all(self.writer, Lit(idx_header), OutcomeAt(io, 1)), LAMBDA w1 :
    IF w1.result # "Ok" THEN Failed(self, w1) ELSE
    Bind(index_loop(w1.sink, VecElems(self.frame_sizes), 1, U(4), io), LAMBDA w2 :
    IF w2.result # "Ok" THEN Failed(self, w2) ELSE
    Bind(as_u32(U(frame_count)), LAMBDA frame_count_u32 :
    Bind(<< <<4, to_le_bytes(file_sizes.total_file_size)>>,
            <<48, to_le_bytes(frame_count_u32)>>,
            <<140, to_le_bytes(frame_count_u32)>>,
            <<240, to_le_bytes(frame_count_u32)>>,
            <<248, to_le_bytes(file_sizes.movi_size)>> >>, LAMBDA sizes :
    Failed(self, patch_loop(w2.sink, sizes, 1, 1 + frame_count, io)))))))))

\* the number of sink calls of a finish that runs to its end
finish_calls(self) == 1 + VecLen(self.frame_sizes) + 10

create_header_data(sink, fps, width, height, io) ==
    Writer_write_all(sink, Lit(create_header_template(fps, width, height)),
                     OutcomeAt(io, 1))

\* MjpegWriter { writer, frame_sizes: Vec::new(), jpeg_total_size: 0,
\*               estimated_file_size: 256 }
Unbuilt(sink) ==
    [writer |-> sink, frame_sizes |-> <<>>,
     jpeg_total_size |-> Zero, estimated_file_size |-> U(256)]

\* MjpegWriter::new: [result, self, sink]; self is the writer when result is
\* "Ok", sink is what became of the sink handed in
new(sink, width, height, fps, io) ==
    IF fps = Zero
    THEN [result |-> "InvalidFrameSize", self |-> Unbuilt(sink), sink |-> sink] ELSE
    Bind(create_header_data(sink, fps, width, height, io), LAMBDA w :
    [result |-> w.result, self |-> Unbuilt(w.sink), sink |-> w.sink])

----------------------------------------------------------------------------
(* writer.rs: the two implementations of AsyncWriter.  ad names the one in *)
(* use: "futures" (any futures AsyncWrite + AsyncSeek) or "tokio"          *)
(* (tokio::fs::File).  Awaiting a sink call is one step of the one task    *)
(* that owns the writer, so an operation is its sink calls in order.       *)

futures_write_all(sink, buf, o) == io_write_all(sink, buf, o)

\* for buf in bufs { write_all(self, buf).await?; }: buffer k is sink call k
RECURSIVE futures_write_all_vectored(_, _, _, _)
futures_write_all_vectored(sink, bufs, k, io) ==
    IF k > Len(bufs) THEN [sink |-> sink, result |-> "Ok"] ELSE
    Bind(io_write_all(sink, bufs[k], OutcomeAt(io, k)), LAMBDA w :
    IF w.result # "Ok" THEN w ELSE
    futures_write_all_vectored(w.sink, bufs, k + 1, io))

futures_seek(sink, pos, o) == io_seek(sink, pos, o)

tokio_write_all(sink, buf, o) == io_write_all(sink, buf, o)

\* the count write_vectored returns is mapped to ()
tokio_write_all_vectored(sink, bufs, o) ==
    Bind(io_write_vectored(sink, bufs, o), LAMBDA w :
    [sink |-> w.sink, result |-> w.result])

tokio_seek(sink, pos, o) == io_seek(sink, pos, o)

\* trait AsyncWriter, dispatched on the implementation
AsyncWriter_write_all(ad, sink, buf, o) ==
    IF ad = "futures" THEN futures_write_all(sink, buf, o)
    ELSE tokio_write_all(sink, buf, o)

AsyncWriter_write_all_vectored(ad, sink, bufs, io) ==
    IF ad = "futures" THEN futures_write_all_vectored(sink, bufs, 1, io)
    ELSE tokio_write_all_vectored(sink, bufs, OutcomeAt(io, 1))

AsyncWriter_seek(ad, sink, pos, o) ==
    IF ad = "futures" THEN futures_seek(sink, pos, o) ELSE tokio_seek(sink, pos, o)

----------------------------------------------------------------------------
(* mjpeg_async.rs *)

\* the checks with the frame count compared by > where the code has >=
async_check_limits_count_above(self, frame_size) ==
    IF VecLen(self.frame_sizes) > MAX_FRAME_COUNT THEN "FrameCountExceeded"
    ELSE IF Gt(frame_size, U32_MAX) THEN "FrameSizeExceeded"
    ELSE LET padded_size == IF IsOdd(frame_size) THEN Add(frame_size, U(1))
                            ELSE frame_size
             estimated_new_size ==
                 Add(Add(self.estimated_file_size, Add(U(8), padded_size)), U(16))
         IN  IF Gt(estimated_new_size, MAX_AVI_FILE_SIZE) THEN "FileSizeExceeded"
             ELSE "Ok"

async_check_limits(self, frame_size) ==
    IF VecLen(self.frame_sizes) >= MAX_FRAME_COUNT THEN "FrameCountExceeded"
    ELSE IF Gt(frame_size, U32_MAX) THEN "FrameSizeExceeded"
    ELSE LET padded_size == IF IsOdd(frame_size) THEN Add(frame_size, U(1))
                            ELSE frame_size
             new_frame_data_size == Add(U(8), padded_size)
             new_index_size == U(16)
             estimated_new_size ==
                 Add(Add(self.estimated_file_size, new_frame_data_size), new_index_size)
         IN  IF Gt(estimated_new_size, MAX_AVI_FILE_SIZE) THEN "FileSizeExceeded"
             ELSE "Ok"

async_add_frame_vectored(ad, self, bufs, io) ==
    Bind(total_len(bufs), LAMBDA frame_size :
    IF frame_size = Zero THEN [self |-> self, result |-> "InvalidFrameSize"] ELSE
    Bind(async_check_limits(self, frame_size), LAMBDA lim :
    IF lim # "Ok" THEN [self |-> self, result |-> lim] ELSE
    Bind(IsOdd(frame_size), LAMBDA odd :
    Bind(IF odd THEN Add(frame_size, U(1)) ELSE frame_size, LAMBDA padded_size :
    Bind(as_u32(padded_size), LAMBDA padded_size_u32 :
    Bind(create_frame_chunk_header(padded_size_u32), LAMBDA chunk_header :
    Bind(<<Lit(chunk_header)>> \o bufs \o (IF odd THEN <<Lit(<<0>>)>> ELSE <<>>),
         LAMBDA bufs_to_write :
    Bind(AsyncWriter_write_all_vectored(ad, self.writer, bufs_to_write, io), LAMBDA w :
    IF w.result # "Ok" THEN Failed(self, w) ELSE
    [self |->
        [writer |-> w.sink,
         frame_sizes |-> VecPush(self.frame_sizes, padded_size_u32),
         jpeg_total_size |-> Add(self.jpeg_total_size, padded_size),
         estimated_file_size |->
             Add(self.estimated_file_size, Add(Add(U(8), padded_size), U(16)))],
     result |-> "Ok"]))))))))

async_add_frame(ad, self, jpeg_binary, io) ==
    async_add_frame_vectored(ad, self, <<jpeg_binary>>, io)

RECURSIVE async_index_loop(_, _, _, _, _, _)
async_index_loop(ad, sink, sizes, j, offset, io) ==
    IF j > Len(sizes) THEN [sink |-> sink, result |-> "Ok"] ELSE
    Bind(create_index_entry(offset, sizes[j]), LAMBDA entry :
    Bind(AsyncWriter_write_all(ad, sink, Lit(entry), OutcomeAt(io, 1 + j)), LAMBDA w :
    IF w.result # "Ok" THEN w ELSE
    Bind(checked_add_u32(offset, U(8)), LAMBDA o :
    IF ~o.some THEN [sink |-> w.sink, result |-> "FileSizeExceeded"] ELSE
    Bind(checked_add_u32(o.v, sizes[j]), LAMBDA next :
    IF ~next.some THEN [sink |-> w.sink, result |-> "FileSizeExceeded"] ELSE
    async_index_loop(ad, w.sink, sizes, j + 1, next.v, io)))))

RECURSIVE async_patch_loop(_, _, _, _, _, _)
async_patch_loop(ad, sink, sizes, p, base, io) ==
    IF p > Len(sizes) THEN [sink |-> sink, result |-> "Ok"] ELSE
    Bind(AsyncWriter_seek(ad, sink, U(sizes[p][1]), OutcomeAt(io, base + 2 * p - 1)),
         LAMBDA sk :
    IF sk.result # "Ok" THEN sk ELSE
    Bind(AsyncWriter_write_all(ad, sk.sink, Lit(sizes[p][2]), OutcomeAt(io, base + 2 * p)),
         LAMBDA w :
    IF w.result # "Ok" THEN w ELSE
    async_patch_loop(ad, w.sink, sizes, p + 1, base, io)))

async_finish(ad, self, io) ==
    Bind(VecLen(self.frame_sizes), LAMBDA frame_count :
    Bind(calculate_file_sizes(self.frame_sizes, self.jpeg_total_size), LAMBDA file_sizes :
    IF file_sizes.result # "Ok" THEN [self |-> self, result |-> file_sizes.result] ELSE
    Bind(create_idx_header(file_sizes.index_size), LAMBDA idx_header :
    Bind(AsyncWriter_write_all(ad, self.writer, Lit(idx_header), OutcomeAt(io, 1)),
         LAMBDA w1 :
    IF w1.result # "Ok" THEN Failed(self, w1) ELSE
    Bind(async_index_loop(ad, w1.sink, VecElems(self.frame_sizes), 1, U(4), io),
         LAMBDA w2 :
    IF w2.result # "Ok" THEN Failed(self, w2) ELSE
    Bind(as_u32(U(frame_count)), LAMBDA frame_count_u32 :
    Bind(<< <<4, to_le_bytes(file_sizes.total_file_size)>>,
            <<48, to_le_bytes(frame_count_u32)>>,
            <<140, to_le_bytes(frame_count_u32)>>,
            <<240, to_le_bytes(frame_count_u32)>>,
            <<248, to_le_bytes(file_sizes.movi_size)>> >>, LAMBDA sizes :
    Failed(self, async_patch_loop(ad, w2.sink, sizes, 1, 1 + frame_count, io)))))))))

\* MjpegAsyncWriter::new
async_new(ad, sink, width, height, fps, io) ==
    IF fps = Zero
    THEN [result |-> "InvalidFrameSize", self |-> Unbuilt(sink), sink |-> sink] ELSE
    Bind(create_header_template(fps, width, height), LAMBDA header :
    Bind(AsyncWriter_write_all(ad, sink, Lit(header), OutcomeAt(io, 1)), LAMBDA w :
    [result |-> w.result, self |-> Unbuilt(w.sink), sink |-> w.sink]))

----------------------------------------------------------------------------
(* lib.rs: the single-buffer MjpegWriter over std::io::Write + Seek *)

u16_to_le_bytes(n) == <<n % 256, n \div 256>>

RECURSIVE FlattenFrom(_, _)
FlattenFrom(parts, i) ==
    IF i > Len(parts) THEN <<>>
    ELSE IF i = Len(parts) THEN parts[i]
    ELSE parts[i] \o parts[i + 1] \o FlattenFrom(parts, i + 2)

\* the 256 bytes of `header` when it is written: the fields in the order the
\* code fills them, pos advancing by the length of each
lib_header(fps, width, height) ==
    LET microsec == microsec_per_frame(fps)
        bi_size == bi_size_image(width, height)
    IN  FlattenFrom(<<
           <<82, 73, 70, 70>>,  \* b"RIFF"
           to_le_bytes(U(0)),  \* file size placeholder
           <<65, 86, 73, 32>>,  \* b"AVI "
           <<76, 73, 83, 84>>,  \* b"LIST"
           to_le_bytes(U(224)),  \* hdrl list size
           <<104, 100, 114, 108>>,  \* b"hdrl"
           <<97, 118, 105, 104>>,  \* b"avih"
           to_le_bytes(U(56)),
           to_le_bytes(microsec),  \* microsec/frame
           to_le_bytes(U(7000)),  \* maxbytespersec
           to_le_bytes(U(0)),  \* paddinggranularity
           to_le_bytes(U(16)),  \* flags
           to_le_bytes(U(0)),  \* totalframes placeholder
           to_le_bytes(U(0)),  \* initialframes
           to_le_bytes(U(1)),  \* streams
           to_le_bytes(U(0)),  \* suggestedBufferSize
           to_le_bytes(width),
           to_le_bytes(height),
           [k \in 1..16 |-> 0],  \* reserved
           <<76, 73, 83, 84>>,  \* b"LIST"
           to_le_bytes(U(148)),
           <<115, 116, 114, 108>>,  \* b"strl"
           <<115, 116, 114, 104>>,  \* b"strh"
           to_le_bytes(U(64)),
           <<118, 105, 100, 115>>,  \* b"vids"
           <<77, 74, 80, 71>>,  \* b"MJPG"
           to_le_bytes(U(0)),  \* flags
           u16_to_le_bytes(0),  \* priority
           u16_to_le_bytes(0),  \* language
           to_le_bytes(U(0)),  \* initialframes
           to_le_bytes(U(1)),  \* scale
           to_le_bytes(fps),  \* rate
           to_le_bytes(U(0)),  \* start
           to_le_bytes(U(0)),  \* length placeholder
           to_le_bytes(U(0)),  \* suggestedBufferSize
           to_le_bytes(U(0)),  \* quality
           to_le_bytes(U(0)),  \* sampleSize
           to_le_bytes(U(0)),  \* left
           to_le_bytes(U(0)),  \* top
           to_le_bytes(width),
           to_le_bytes(height),
           <<115, 116, 114, 102>>,  \* b"strf"
           to_le_bytes(U(40)),
           to_le_bytes(U(40)),
           to_le_bytes(width),
           to_le_bytes(height),
           u16_to_le_bytes(1),
           u16_to_le_bytes(24),
           <<77, 74, 80, 71>>,  \* b"MJPG"
           to_le_bytes(bi_size),
           to_le_bytes(U(0)),  \* biXPelsPerMeter
           to_le_bytes(U(0)),  \* biYPelsPerMeter
           to_le_bytes(U(0)),  \* biClrUsed
           to_le_bytes(U(0)),  \* biClrImportant
           <<76, 73, 83, 84>>,  \* b"LIST"
           to_le_bytes(U(16)),
           <<111, 100, 109, 108>>,  \* b"odml"
           <<100, 109, 108, 104>>,  \* b"dmlh"
           to_le_bytes(U(4)),
           to_le_bytes(U(0)),
           <<76, 73, 83, 84>>,  \* b"LIST"
           to_le_bytes(U(0)),  \* movi size placeholder
           <<109, 111, 118, 105>>   \* b"movi"
        >>, 1)

lib_create_header_data(sink, fps, width, height, io) ==
    io_write_all(sink, Lit(lib_header(fps, width, height)), OutcomeAt(io, 1))

\* MjpegWriter::new of lib.rs
lib_new(sink, width, height, fps, io) ==
    IF fps = Zero
    THEN [result |-> "InvalidFrameSize", self |-> Unbuilt(sink), sink |-> sink] ELSE
    Bind(lib_create_header_data(sink, fps, width, height, io), LAMBDA w :
    [result |-> w.result, self |-> Unbuilt(w.sink), sink |-> w.sink])

\* the checks without the one of the frame count
lib_check_limits_without_frame_count(self, frame_size) ==
    IF Gt(frame_size, U32_MAX) THEN "FrameSizeExceeded"
    ELSE LET padded_size == IF IsOdd(frame_size) THEN Add(frame_size, U(1))
                            ELSE frame_size
             estimated_new_size ==
                 Add(Add(self.estimated_file_size, Add(U(8), padded_size)), U(16))
         IN  IF Gt(estimated_new_size, MAX_AVI_FILE_SIZE) THEN "FileSizeExceeded"
             ELSE "Ok"

lib_check_limits(self, frame_size) ==
    IF VecLen(self.frame_sizes) >= MAX_FRAME_COUNT THEN "FrameCountExceeded"
    ELSE IF Gt(frame_size, U32_MAX) THEN "FrameSizeExceeded"
    ELSE LET padded_size == IF IsOdd(frame_size) THEN Add(frame_size, U(1))
                            ELSE frame_size
             new_frame_data_size == Add(U(8), padded_size)
             new_index_size == U(16)
             estimated_new_size ==
                 Add(Add(self.estimated_file_size, new_frame_data_size), new_index_size)
         IN  IF Gt(estimated_new_size, MAX_AVI_FILE_SIZE) THEN "FileSizeExceeded"
             ELSE "Ok"

\* three write_all calls: the chunk header, the frame, the padding byte
lib_add_frame(self, jpeg_binary, io) ==
    IF jpeg_binary = <<>> THEN [self |-> self, result |-> "InvalidFrameSize"] ELSE
    Bind(lib_check_limits(self, BLen(jpeg_binary)), LAMBDA lim :
    IF lim # "Ok" THEN [self |-> self, result |-> lim] ELSE
    Bind(BLen(jpeg_binary), LAMBDA frame_size :
    Bind(IsOdd(frame_size), LAMBDA odd :
    Bind(IF odd THEN Add(frame_size, U(1)) ELSE frame_size, LAMBDA padded_size :
    Bind(as_u32(padded_size), LAMBDA padded_size_u32 :
    Bind(FOURCC_00dc \o to_le_bytes(padded_size_u32), LAMBDA chunk :
    Bind(io_write_all(self.writer, Lit(chunk), OutcomeAt(io, 1)), LAMBDA w1 :
    IF w1.result # "Ok" THEN Failed(self, w1) ELSE
    Bind(io_write_all(w1.sink, jpeg_binary, OutcomeAt(io, 2)), LAMBDA w2 :
    IF w2.result # "Ok" THEN Failed(self, w2) ELSE
    Bind(IF odd THEN io_write_all(w2.sink, Lit(<<0>>), OutcomeAt(io, 3)) ELSE w2,
         LAMBDA w3 :
    IF w3.result # "Ok" THEN Failed(self, w3) ELSE
    [self |->
        [writer |-> w3.sink,
         frame_sizes |-> VecPush(self.frame_sizes, padded_size_u32),
         jpeg_total_size |-> Add(self.jpeg_total_size, padded_size),
         estimated_file_size |->
             Add(self.estimated_file_size, Add(Add(U(8), padded_size), U(16)))],
     result |-> "Ok"])))))))))

RECURSIVE lib_index_loop(_, _, _, _, _)
lib_index_loop(sink, sizes, j, offset, io) ==
    IF j > Len(sizes) THEN [sink |-> sink, result |-> "Ok"] ELSE
    Bind(FOURCC_00dc \o to_le_bytes(U(16)) \o to_le_bytes(offset) \o to_le_bytes(sizes[j]),
         LAMBDA entry :
    Bind(io_write_all(sink, Lit(entry), OutcomeAt(io, 1 + j)), LAMBDA w :
    IF w.result # "Ok" THEN w ELSE
    Bind(checked_add_u32(offset, U(8)), LAMBDA o :
    IF ~o.some THEN [sink |-> w.sink, result |-> "FileSizeExceeded"] ELSE
    Bind(checked_add_u32(o.v, sizes[j]), LAMBDA next :
    IF ~next.some THEN [sink |-> w.sink, result |-> "FileSizeExceeded"] ELSE
    lib_index_loop(w.sink, sizes, j + 1, next.v, io)))))

RECURSIVE lib_patch_loop(_, _, _, _, _)
lib_patch_loop(sink, sizes, p, base, io) ==
    IF p > Len(sizes) THEN [sink |-> sink, result |-> "Ok"] ELSE
    Bind(io_seek(sink, U(sizes[p][1]), OutcomeAt(io, base + 2 * p - 1)), LAMBDA sk :
    IF sk.result # "Ok" THEN sk ELSE
    Bind(io_write_all(sk.sink, Lit(sizes[p][2]), OutcomeAt(io, base + 2 * p)), LAMBDA w :
    IF w.result # "Ok" THEN w ELSE
    lib_patch_loop(w.sink, sizes, p + 1, base, io)))

\* the index is written first, the sizes are computed and checked after it
lib_finish(self, io) ==
    Bind(VecLen(self.frame_sizes), LAMBDA frame_count :
    IF Gt(U(frame_count), U32_MAX)
    THEN [self |-> self, result |-> "FrameCountExceeded"] ELSE
    Bind(as_u32(U(frame_count)), LAMBDA frame_count_u32 :
    Bind(MulSmall(frame_count_u32, 16), LAMBDA index_size :
    IF Gt(index_size, U32_MAX) THEN [self |-> self, result |-> "FileSizeExceeded"] ELSE
    Bind(FOURCC_idx1 \o to_le_bytes(as_u32(index_size)), LAMBDA idx_header :
    Bind(io_write_all(self.writer, Lit(idx_header), OutcomeAt(io, 1)), LAMBDA w1 :
    IF w1.result # "Ok" THEN Failed(self, w1) ELSE
    Bind(lib_index_loop(w1.sink, VecElems(self.frame_sizes), 1, U(4), io), LAMBDA w2 :
    IF w2.result # "Ok" THEN Failed(self, w2) ELSE
    Bind(Add(Add(U(256), self.jpeg_total_size), U(frame_count * (8 + 16))),
         LAMBDA total_file_size :
    IF Gt(total_file_size, U32_MAX)
    THEN [self |-> [self EXCEPT !.writer = w2.sink], result |-> "FileSizeExceeded"] ELSE
    Bind(Add(Add(U(4), self.jpeg_total_size), U(frame_count * 8)), LAMBDA movi_size :
    IF Gt(movi_size, U32_MAX)
    THEN [self |-> [self EXCEPT !.writer = w2.sink], result |-> "FileSizeExceeded"] ELSE
    Bind(<< <<4, to_le_bytes(as_u32(total_file_size))>>,
            <<48, to_le_bytes(frame_count_u32)>>,
            <<140, to_le_bytes(frame_count_u32)>>,
            <<240, to_le_bytes(frame_count_u32)>>,
            <<248, to_le_bytes(as_u32(movi_size))>> >>, LAMBDA sizes :
    Failed(self, lib_patch_loop(w2.sink, sizes, 1, 1 + frame_count, io)))))))))))

----------------------------------------------------------------------------
(* The state machine: one writer over one sink *)

VARIABLES
    variant,              \* which writer over which sink: "sync" (mjpeg_sync.rs
                          \* over std::io), "futures" and "tokio" (mjpeg_async.rs
                          \* over the two AsyncWriter implementations), "legacy"
                          \* (lib.rs)
    phase,                \* "none" before new has returned Ok, then "open"
    writer,               \* the sink: [data, pos]
    frame_sizes,          \* Vec<u32>
    jpeg_total_size,      \* u64
    estimated_file_size,  \* u64
    last,                 \* the last call: what it was given, what it returned,
                          \* and the writer as it was before the call
    tally                 \* counts of what has happened since the start

vars == <<variant, phase, writer, frame_sizes, jpeg_total_size,
          estimated_file_size, last, tally>>

\* the writer as the record the operations take
Self == [writer |-> writer, frame_sizes |-> frame_sizes,
         jpeg_total_size |-> jpeg_total_size,
         estimated_file_size |-> estimated_file_size]

\* Bounds of the exploration
MaxSteps == 3     \* calls made on a writer after its construction
MaxFaults == 1    \* sink calls that fail or come up short
PrefillGap == 2   \* a long-running writer starts this far below MAX_FRAME_COUNT
MaxIndexed == 3   \* finish is explored on writers of at most this many frames

Variants == {"sync", "futures", "tokio", "legacy"}

\* (width, height, fps) given to new
Params == { <<U(320), U(240), U(30)>>, <<U(320), U(240), Zero>> }

\* the frames given to add_frame_vectored: sequences of fragments
Payload(n) == Fill(171, n)

Frames ==
    { <<>>,                                    \* no fragment
      << <<>> >>,                               \* one empty fragment
      << Payload(U(100)) >>,                    \* even
      << Payload(U(101)) >>,                    \* odd
      << Lit(<<255, 216>>), <<>>, Lit(<<9>>) >>, \* fragments, one of them empty
      \* the longest frame a fresh writer takes, and the next length
      << Payload(Sub(MAX_AVI_FILE_SIZE, U(256 + 8 + 16 + 1))) >>,
      << Payload(Sub(MAX_AVI_FILE_SIZE, U(256 + 8 + 16))) >>,
      << Payload(U32_MAX) >>,
      << Payload(Add(U32_MAX, U(1))) >> }

\* the frames given to add_frame: one slice each
Slices == { f[1] : f \in { g \in Frames : Len(g) = 1 } }

\* what a sink call can do other than all it was asked
Faults ==
    { [kind |-> "err", cut |-> 0], [kind |-> "err", cut |-> 8],
      [kind |-> "short", cut |-> 8] }

\* the scripts of an operation of n sink calls, within the fault budget;
\* vectored: the calls are single vectored writes
Scripts(n, vectored) ==
    {NoFault} \cup
    IF tally.faults >= MaxFaults THEN {}
    ELSE { io \in [at : 1..n, o : Faults] : (io.o.kind = "short") = vectored }

Faulty(io) == IF io.at = 0 THEN 0 ELSE 1

\* the sink calls of one append
append_calls(v, bufs) ==
    IF v = "futures" THEN Len(bufs) + 2 ELSE IF v = "legacy" THEN 3 ELSE 1

\* the operations of the writer of variant v
MjpegWriter_new(v, sink, p, io) ==
    IF v = "sync" THEN new(sink, p[1], p[2], p[3], io)
    ELSE IF v = "legacy" THEN lib_new(sink, p[1], p[2], p[3], io)
    ELSE async_new(v, sink, p[1], p[2], p[3], io)

MjpegAviWriter_add_frame(v, self, jpeg_binary, io) ==
    IF v = "sync" THEN add_frame(self, jpeg_binary, io)
    ELSE IF v = "legacy" THEN lib_add_frame(self, jpeg_binary, io)
    ELSE async_add_frame(v, self, jpeg_binary, io)

MjpegAviWriter_add_frame_vectored(v, self, bufs, io) ==
    IF v = "sync" THEN add_frame_vectored(self, bufs, io)
    ELSE async_add_frame_vectored(v, self, bufs, io)

MjpegAviWriter_finish(v, self, io) ==
    IF v = "sync" THEN finish(self, io)
    ELSE IF v = "legacy" THEN lib_finish(self, io)
    ELSE async_finish(v, self, io)

\* a writer that has run for a long time: n frames of two bytes each, written
\* in full to a sink that took all of them
PrefillChunk == create_frame_chunk_header(U(2)) \o <<255, 216>>

Prefilled(v, n) ==
    Bind(Cat(Lit(IF v = "legacy" THEN lib_header(U(30), U(320), U(240))
                 ELSE create_header_template(U(30), U(320), U(240))),
             << <<PrefillChunk, U(n)>> >>), LAMBDA d :
    [writer |-> [data |-> d, pos |-> BLen(d)],
     frame_sizes |-> << <<U(2), n>> >>,
     jpeg_total_size |-> U(2 * n),
     estimated_file_size |-> U(256 + n * (8 + 2 + 16))])

Init ==
    /\ variant \in Variants
    /\ \/ /\ phase = "none"
          /\ writer = [data |-> <<>>, pos |-> Zero]
          /\ frame_sizes = <<>>
          /\ jpeg_total_size = Zero
          /\ estimated_file_size = Zero
          /\ tally = [steps |-> 0, faults |-> 0, appends |-> 0, finishes |-> 0]
       \/ \E w \in {Prefilled(variant, MAX_FRAME_COUNT - PrefillGap)} :
              /\ phase = "open"
              /\ writer = w.writer
              /\ frame_sizes = w.frame_sizes
              /\ jpeg_total_size = w.jpeg_total_size
              /\ estimated_file_size = w.estimated_file_size
              /\ tally = [steps |-> 0, faults |-> 0,
                          appends |-> MAX_FRAME_COUNT - PrefillGap, finishes |-> 0]
    /\ last = [op |-> "none", bufs |-> <<>>, io |-> NoFault, result |-> "Ok",
               pre |-> [writer |-> writer, frame_sizes |-> frame_sizes,
                        jpeg_total_size |-> jpeg_total_size,
                        estimated_file_size |-> estimated_file_size]]

\* the state after a call that returned r = [self, result]
Returned(op, bufs, r, io) ==
    /\ writer' = r.self.writer
    /\ frame_sizes' = r.self.frame_sizes
    /\ jpeg_total_size' = r.self.jpeg_total_size
    /\ estimated_file_size' = r.self.estimated_file_size
    /\ last' = [op |-> op, bufs |-> bufs, io |-> io, result |-> r.result, pre |-> Self]
    /\ tally' = [steps |-> tally.steps + 1,
                 faults |-> tally.faults + Faulty(io),
                 appends |-> tally.appends +
                     (IF op # "finish" /\ r.result = "Ok" THEN 1 ELSE 0),
                 finishes |-> tally.finishes +
                     (IF op = "finish" /\ r.result = "Ok" THEN 1 ELSE 0)]

New ==
    /\ phase = "none"
    /\ last.op = "none"
    /\ \E p \in Params, io \in Scripts(1, FALSE) :
          \E r \in {MjpegWriter_new(variant, writer, p, io)} :
              /\ phase' = IF r.result = "Ok" THEN "open" ELSE "none"
              /\ writer' = r.sink
              /\ frame_sizes' = IF r.result = "Ok" THEN r.self.frame_sizes ELSE frame_sizes
              /\ jpeg_total_size' =
                     IF r.result = "Ok" THEN r.self.jpeg_total_size ELSE jpeg_total_size
              /\ estimated_file_size' =
                     IF r.result = "Ok" THEN r.self.estimated_file_size
                     ELSE estimated_file_size
              /\ last' = [op |-> "new", bufs |-> p, io |-> io, result |-> r.result,
                          pre |-> Self]
              /\ tally' = [tally EXCEPT !.faults = @ + Faulty(io)]
    /\ UNCHANGED variant

AddFrame ==
    /\ phase = "open"
    /\ tally.steps < MaxSteps
    /\ \E b \in Slices :
          \E io \in Scripts(append_calls(variant, <<b>>), variant \in {"sync", "tokio"}) :
             Returned("add_frame", <<b>>, MjpegAviWriter_add_frame(variant, Self, b, io), io)
    /\ UNCHANGED <<variant, phase>>

AddFrameVectored ==
    /\ phase = "open"
    /\ variant # "legacy"
    /\ tally.steps < MaxSteps
    /\ \E bufs \in Frames :
          \E io \in Scripts(append_calls(variant, bufs), variant \in {"sync", "tokio"}) :
             Returned("add_frame_vectored", bufs,
                      MjpegAviWriter_add_frame_vectored(variant, Self, bufs, io), io)
    /\ UNCHANGED <<variant, phase>>

Finish ==
    /\ phase = "open"
    /\ tally.steps < MaxSteps
    /\ VecLen(frame_sizes) <= MaxIndexed
    /\ \E io \in Scripts(finish_calls(Self), FALSE) :
          Returned("finish", <<>>, MjpegAviWriter_finish(variant, Self, io), io)
    /\ UNCHANGED <<variant, phase>>

Next == New \/ AddFrame \/ AddFrameVectored \/ Finish

Spec == Init /\ [][Next]_vars

----------------------------------------------------------------------------
(* What the properties below observe of the last call *)

IsAppend == last.op \in {"add_frame", "add_frame_vectored"}

IsFinish == last.op = "finish"

\* the frame the last append was given, its length and its padded length
FrameGiven == CatAll(last.bufs)

FrameLen == BLen(FrameGiven)

PaddedLen == IF FrameLen[2] % 2 = 0 THEN FrameLen ELSE Add(FrameLen, U(1))

\* the chunk of a frame: "00dc", the padded length, the frame, a zero byte
\* after a frame of odd length
ChunkOf(frame) ==
    LET len == BLen(frame)
        P == IF len[2] % 2 = 0 THEN len ELSE Add(len, U(1))
    IN  Cat(Cat(Lit(<<48, 48, 100, 99>> \o to_le_bytes(P)), frame),
            IF len[2] % 2 = 0 THEN <<>> ELSE Lit(<<0>>))

\* the last element of a vector
VecLast(v) == v[Len(v)][1]

\* the sink was positioned at the end of its content when the last call began
AtEndBefore == last.pre.writer.pos = BLen(last.pre.writer.data)

\* the writer was constructed in this run on an empty sink and every call
\* made on it so far has returned Ok (a writer that starts long-running has
\* more appends than calls)
AllSucceeded ==
    /\ phase = "open"
    /\ tally.steps = tally.appends + tally.finishes

----------------------------------------------------------------------------
(* The frame chunk *)

\* C1: after a successful append of a frame of len >= 1 bytes the sink has
\* taken, at its position, "00dc", the little-endian padded length P (len if
\* len is even, len + 1 if not), the frame and one zero byte iff len is odd:
\* 8 + P bytes, P even, and P is the value appended to frame_sizes.
C1_AppendWritesPaddedChunk ==
    (IsAppend /\ last.result = "Ok") =>
        /\ ~Lt(FrameLen, U(1))
        /\ PaddedLen[2] % 2 = 0
        /\ writer.pos = Add(last.pre.writer.pos, Add(U(8), PaddedLen))
        /\ Slice(writer.data, last.pre.writer.pos, Add(U(8), PaddedLen))
              = ChunkOf(FrameGiven)
        /\ VecLen(frame_sizes) = VecLen(last.pre.frame_sizes) + 1
        /\ VecLast(frame_sizes) = PaddedLen

\* C1: the same, of the appends whose sink calls all did what they were asked
C1_AppendWritesPaddedChunk_FullWrites ==
    (IsAppend /\ last.result = "Ok" /\ last.io = NoFault) =>
        /\ writer.pos = Add(last.pre.writer.pos, Add(U(8), PaddedLen))
        /\ Slice(writer.data, last.pre.writer.pos, Add(U(8), PaddedLen))
              = ChunkOf(FrameGiven)
        /\ VecLast(frame_sizes) = PaddedLen

\* an odd frame of 101 bytes has been appended: P = 102, a chunk of 110 bytes
C1_Witness_OddFrame ==
    /\ IsAppend /\ last.result = "Ok" /\ last.io = NoFault
    /\ FrameLen = U(101)
    /\ VecLast(frame_sizes) = U(102)
    /\ Sub(writer.pos, last.pre.writer.pos) = U(110)

----------------------------------------------------------------------------
(* The index *)

\* 4 + the sum of 8 + fs[i] over the first k elements of fs
RECURSIVE OffsetOfFrame(_, _)
OffsetOfFrame(fs, k) ==
    IF k = 0 THEN U(4) ELSE Add(OffsetOfFrame(fs, k - 1), Add(U(8), fs[k]))

\* where the N-th index entry (N from 0) of the last finish lies in the sink:
\* after the 8-byte idx1 header written where the sink stood
IndexEntryAt(N) == Add(last.pre.writer.pos, U(8 + 16 * N))

----------------------------------------------------------------------------
(* The finished file *)

\* the bytes a file of the frames fs holds: the header, the chunks, the idx1
\* header and the entries
FileLength(fs) ==
    Add(Add(U(256), Sub(OffsetOfFrame(fs, Len(fs)), U(4))), U(8 + 16 * Len(fs)))

\* C3: after construction on an empty sink, n >= 0 successful appends with
\* padded sizes P_1..P_n and a successful finish, the sink holds exactly
\* 256 + sum(8 + P_i) + 8 + 16 n bytes, and the RIFF size field at bytes 4-7
\* is that count minus 8, which is 256 + jpeg_total_size + 24 n.
C3_FileLength ==
    (IsFinish /\ last.result = "Ok" /\ AllSucceeded /\ tally.finishes = 1) =>
        LET fs == VecElems(frame_sizes)
        IN  /\ BLen(writer.data) = FileLength(fs)
            /\ Field(writer.data, 4) = Sub(BLen(writer.data), U(8))
            /\ Field(writer.data, 4)
                  = Add(Add(U(256), jpeg_total_size), U(24 * Len(fs)))

\* C3: the same, of the runs in which every sink call did what it was asked
C3_FileLength_FullWrites ==
    (IsFinish /\ last.result = "Ok" /\ AllSucceeded /\ tally.finishes = 1
        /\ tally.faults = 0) =>
        LET fs == VecElems(frame_sizes)
        IN  /\ BLen(writer.data) = FileLength(fs)
            /\ Field(writer.data, 4) = Sub(BLen(writer.data), U(8))
            /\ Field(writer.data, 4)
                  = Add(Add(U(256), jpeg_total_size), U(24 * Len(fs)))

\* one frame of 100 bytes, finished: 388 bytes, RIFF size 380
C3_Witness_OneFrame ==
    /\ IsFinish /\ last.result = "Ok" /\ AllSucceeded /\ tally.finishes = 1
    /\ VecElems(frame_sizes) = <<U(100)>>
    /\ BLen(writer.data) = U(388)
    /\ Field(writer.data, 4) = U(380)

\* C4: after a successful finish following n successful appends, the three
\* frame-count fields of the header, bytes 48-51 (totalframes), 140-143
\* (stream length) and 240-243 (odml totalframes), all hold n as a
\* little-endian u32, n being the number of appends that returned Ok.
C4_FrameCountFields ==
    (IsFinish /\ last.result = "Ok") =>
        /\ Field(writer.data, 48) = U(tally.appends)
        /\ Field(writer.data, 140) = U(tally.appends)
        /\ Field(writer.data, 240) = U(tally.appends)

\* a finish after one append that returned Ok and one that did not: the
\* fields hold 1
C4_Witness_OneOfTwoCounted ==
    /\ IsFinish /\ last.result = "Ok"
    /\ tally.steps = 3 /\ tally.appends = 1 /\ tally.finishes = 1
    /\ Field(writer.data, 48) = U(1)
    /\ Field(writer.data, 140) = U(1)
    /\ Field(writer.data, 240) = U(1)

\* C5: after a successful finish the movi size field at bytes 248-251 is
\* 4 + jpeg_total_size + 8 n, which is the number of bytes in the sink from
\* the "movi" tag at offset 252 up to the first byte of the idx1 chunk (the
\* position of the sink when finish began).
C5_MoviSize ==
    (IsFinish /\ last.result = "Ok" /\ AllSucceeded /\ tally.finishes = 1) =>
        /\ Field(writer.data, 248)
              = Add(Add(U(4), jpeg_total_size), U(8 * VecLen(frame_sizes)))
        /\ Expand(Slice(writer.data, last.pre.writer.pos, U(4))) = <<105, 100, 120, 49>>
        /\ Field(writer.data, 248) = Sub(last.pre.writer.pos, U(252))

\* C5: the same, of the runs in which every sink call did what it was asked
C5_MoviSize_FullWrites ==
    (IsFinish /\ last.result = "Ok" /\ AllSucceeded /\ tally.finishes = 1
        /\ tally.faults = 0) =>
        /\ Field(writer.data, 248)
              = Add(Add(U(4), jpeg_total_size), U(8 * VecLen(frame_sizes)))
        /\ Expand(Slice(writer.data, last.pre.writer.pos, U(4))) = <<105, 100, 120, 49>>
        /\ Field(writer.data, 248) = Sub(last.pre.writer.pos, U(252))

\* frames of 100 and 101 bytes, finished: the movi list is 4 + 108 + 110 bytes
C5_Witness_TwoFrames ==
    /\ IsFinish /\ last.result = "Ok" /\ AllSucceeded /\ tally.finishes = 1
    /\ VecElems(frame_sizes) = <<U(100), U(102)>>
    /\ Field(writer.data, 248) = U(222)
    /\ last.pre.writer.pos = U(252 + 222)

----------------------------------------------------------------------------
(* The limits *)

\* C6: for every sequence of appends followed by finish in which all calls
\* succeed, the produced file (all the bytes in the sink) has at most
\* 2^31 - 1 bytes.
C6_FileSizeLimit ==
    (IsFinish /\ last.result = "Ok" /\ AllSucceeded /\ tally.finishes = 1) =>
        Le(BLen(writer.data), MAX_AVI_FILE_SIZE)

\* C6: what the admission check does bound is the estimate, which leaves out
\* the 8 bytes of the idx1 header: the file has at most 2^31 - 1 + 8 bytes
C6_FileSizeLimit_Plus8 ==
    (IsFinish /\ last.result = "Ok" /\ AllSucceeded /\ tally.finishes = 1) =>
        /\ Le(BLen(writer.data), Add(estimated_file_size, U(8)))
        /\ Le(estimated_file_size, MAX_AVI_FILE_SIZE)

\* a file finished with all its bytes written and more than 2^31 - 1 of them
C6_Witness_OverLimit ==
    /\ IsFinish /\ last.result = "Ok" /\ AllSucceeded /\ tally.finishes = 1
    /\ tally.faults = 0
    /\ BLen(writer.data) = Add(estimated_file_size, U(8))
    /\ Gt(BLen(writer.data), MAX_AVI_FILE_SIZE)

\* the file size an append projects: the estimate before the call, the chunk
\* and the index entry of the frame
Projection == Add(Add(last.pre.estimated_file_size, Add(U(8), PaddedLen)), U(16))

\* the writer and its sink are as they were before the last call
Untouched == Self = last.pre

RecordedBefore == VecLen(last.pre.frame_sizes)

C10_ZeroLengthRejected ==
    (IsAppend /\ FrameLen = Zero) =>
        /\ last.result = "InvalidFrameSize"
        /\ writer = last.pre.writer
        /\ frame_sizes = last.pre.frame_sizes
        /\ jpeg_total_size = last.pre.jpeg_total_size
        /\ estimated_file_size = last.pre.estimated_file_size

\* the async writer, holding one frame, has refused a frame made of one
\* empty fragment
C10_Witness_EmptyFragmentAsync ==
    /\ variant \in {"futures", "tokio"}
    /\ last.op = "add_frame_vectored" /\ last.bufs = << <<>> >>
    /\ last.result = "InvalidFrameSize"
    /\ VecLen(frame_sizes) = 1
    /\ Untouched

----------------------------------------------------------------------------
(* Rejected appends *)

Rejections == {"FrameCountExceeded", "FrameSizeExceeded", "FileSizeExceeded"}

\* C11: whenever the admission check rejects an append (FrameCountExceeded,
\* FrameSizeExceeded or FileSizeExceeded) that call has written no byte to
\* the sink and has left the sink position, frame_sizes, jpeg_total_size and
\* estimated_file_size exactly as they were before it: the writer a later
\* append or finish is called on is the writer the rejected call was called
\* on.
C11_RejectionLeavesNoTrace ==
    (IsAppend /\ last.result \in Rejections) =>
        /\ writer.data = last.pre.writer.data
        /\ writer.pos = last.pre.writer.pos
        /\ frame_sizes = last.pre.frame_sizes
        /\ jpeg_total_size = last.pre.jpeg_total_size
        /\ estimated_file_size = last.pre.estimated_file_size

\* a writer holding one frame of 100 bytes has rejected a frame of 2^32
\* bytes with FrameSizeExceeded and still holds 256 + 108 bytes
C11_Witness_OversizedRejected ==
    /\ IsAppend /\ last.result = "FrameSizeExceeded"
    /\ FrameLen = Add(U32_MAX, U(1))
    /\ VecElems(frame_sizes) = <<U(100)>>
    /\ BLen(writer.data) = U(364)
    /\ Self = last.pre

----------------------------------------------------------------------------
(* The accounts of the writer *)

\* n times the value a, for n up to 2^20 and a product below 2^47
Times(a, n) ==
    Add(MulSmall(MulSmall(a, 16384), n \div 16384), MulSmall(a, n % 16384))

\* the sum of the elements of a vector
RECURSIVE VecSumFrom(_, _)
VecSumFrom(v, i) ==
    IF i > Len(v) THEN Zero ELSE Add(Times(v[i][1], v[i][2]), VecSumFrom(v, i + 1))

VecSum(v) == VecSumFrom(v, 1)

\* C12: in every reachable state of a writer, after any sequence of
\* successful, rejected or failed appends (and of finishes), jpeg_total_size
\* equals the sum of the elements of frame_sizes and every element of
\* frame_sizes is even.
C12_TotalIsSumOfEvenSizes ==
    /\ jpeg_total_size = VecSum(frame_sizes)
    /\ \A i \in 1..Len(frame_sizes) : ~IsOdd(frame_sizes[i][1])

\* three appends have been made of which one did not return Ok, the other
\* two were of 100 and of 101 bytes: the sizes are 100 and 102, the total 202
C12_Witness_AfterOddAndFailed ==
    /\ IsAppend /\ last.result = "Ok" /\ FrameLen = U(101)
    /\ tally.steps = 3 /\ tally.appends = 2
    /\ VecElems(frame_sizes) = <<U(100), U(102)>>
    /\ jpeg_total_size = U(202)

----------------------------------------------------------------------------
(* Fragments and their concatenation.  A second state machine: a writer    *)
(* that has taken at most PriorCalls calls is given one frame in two       *)
(* fragments.                                                              *)

PriorCalls == 1   \* calls made on a writer before the frame in two fragments

\* the fragments a frame is given in
Fragments ==
    { <<>>, Lit(<<255, 216>>), Lit(<<9>>), Payload(U(99)),
      Payload(Sub(MAX_AVI_FILE_SIZE, U(256 + 8 + 16 + 1))) }

InitFragments == Init /\ variant # "legacy"

AddFrameBefore ==
    /\ tally.steps < PriorCalls
    /\ AddFrame

FinishBefore ==
    /\ tally.steps < PriorCalls
    /\ Finish

AddFragments ==
    /\ phase = "open"
    /\ tally.steps <= PriorCalls
    /\ last.op # "add_frame_vectored"
    /\ \E a \in Fragments, b \in Fragments :
          \E io \in Scripts(append_calls(variant, <<a, b>>), variant \in {"sync", "tokio"}) :
             Returned("add_frame_vectored", <<a, b>>,
                      MjpegAviWriter_add_frame_vectored(variant, Self, <<a, b>>, io), io)
    /\ UNCHANGED <<variant, phase>>

NextFragments == New \/ AddFrameBefore \/ FinishBefore \/ AddFragments

SpecFragments == InitFragments /\ [][NextFragments]_vars

\* the bytes of a buffer of length len that a write_all failing with
\* outcome o has put out
CutOf(len, o) == IF o.cut < Small(len) - 1 THEN o.cut ELSE Small(len) - 1

\* The sink that did io to the append of the fragments <<a, b>>, as it is
\* seen by the append of their concatenation: the same outcome at the same
\* byte.  With one vectored write per append the call is the same call; with
\* one write_all per buffer the calls are the header, a, b and the padding
\* for the fragments and the header, a ++ b and the padding for the
\* concatenation, and a write_all of an empty buffer asks nothing of the sink.
SameSink(v, a, b, io) ==
    IF v # "futures" \/ io.at <= 1 THEN io
    ELSE IF io.at = 2
    THEN IF a = <<>> THEN NoFault
         ELSE [at |-> 2, o |-> [kind |-> "err", cut |-> CutOf(BLen(a), io.o)]]
    ELSE IF io.at = 3
    THEN IF b = <<>> THEN NoFault
         ELSE [at |-> 2,
               o |-> [kind |-> "err", cut |-> Small(BLen(a)) + CutOf(BLen(b), io.o)]]
    ELSE IF IsOdd(Add(BLen(a), BLen(b))) THEN [at |-> 3, o |-> io.o]
    ELSE NoFault

----------------------------------------------------------------------------
(* The synchronous and the asynchronous writer *)

\* what MjpegAsyncWriter over the futures adapter makes of the last call:
\* the same call with the same arguments on the writer as it was before the
\* call, over a sink that does all it is asked
AsyncOfLast ==
    IF last.op = "new"
    THEN async_new("futures", last.pre.writer, last.bufs[1], last.bufs[2],
                   last.bufs[3], NoFault)
    ELSE IF last.op = "add_frame"
    THEN async_add_frame("futures", last.pre, last.bufs[1], NoFault)
    ELSE IF last.op = "add_frame_vectored"
    THEN async_add_frame_vectored("futures", last.pre, last.bufs, NoFault)
    ELSE async_finish("futures", last.pre, NoFault)

\* the last call has returned what AsyncOfLast returns and has left the
\* sink and the writer as AsyncOfLast leaves them
SameAsAsync ==
    /\ AsyncOfLast.result = last.result
    /\ IF last.op = "new"
       THEN /\ AsyncOfLast.sink = writer
            /\ last.result = "Ok" => AsyncOfLast.self = Self
       ELSE AsyncOfLast.self = Self

\* C14: for the same (width, height, fps) and the same sequence of append
\* calls followed by finish, the synchronous MjpegWriter and the asynchronous
\* MjpegAsyncWriter return the same results call by call and produce
\* byte-identical sink content.  Stated call by call, of sinks that report no
\* failure: every call of the synchronous writer returns what the same call
\* of the asynchronous writer returns from the same state, and leaves the
\* same sink content and the same writer.
C14_SyncAsAsync ==
    (variant = "sync" /\ last.op # "none" /\ last.io.o.kind # "err") => SameAsAsync

\* C14: the same, of the calls whose sink calls all did what they were asked
C14_SyncAsAsync_FullWrites ==
    (variant = "sync" /\ last.op # "none" /\ last.io = NoFault) => SameAsAsync

\* the synchronous writer has been constructed, has taken frames of 100 and
\* 101 bytes and has been finished over a sink that did all it was asked:
\* the asynchronous writer makes the same 514 bytes of the same finish
C14_Witness_SameFile ==
    /\ variant = "sync" /\ IsFinish /\ last.result = "Ok"
    /\ AllSucceeded /\ tally.faults = 0
    /\ VecElems(frame_sizes) = <<U(100), U(102)>>
    /\ BLen(writer.data) = U(514)
    /\ AsyncOfLast.self.writer.data = writer.data

----------------------------------------------------------------------------
(* write_all_vectored *)

\* the buffers the last append handed to write_all_vectored
BufsToWrite ==
    <<Lit(create_frame_chunk_header(as_u32(PaddedLen)))>> \o last.bufs
        \o (IF IsOdd(FrameLen) THEN <<Lit(<<0>>)>> ELSE <<>>)

\* every byte of every buffer is in the sink, in order, from the position
\* the sink had, and a sink that stood at its end has grown by 8 + padded_len
AllBuffersWritten ==
    /\ writer.pos = Add(last.pre.writer.pos, total_len(BufsToWrite))
    /\ Slice(writer.data, last.pre.writer.pos, total_len(BufsToWrite))
          = CatAll(BufsToWrite)
    /\ AtEndBefore =>
          BLen(writer.data) = Add(BLen(last.pre.writer.data), Add(U(8), PaddedLen))

\* C15: a successful write_all_vectored writes every byte of every buffer
\* in the given order to the current position, so that after a successful
\* append the sink has grown by exactly 8 + padded_len bytes, for every sink
\* admitted by the Writer / AsyncWriter implementations, including sinks
\* whose vectored write may accept only part of the data.  (The append
\* returns Ok exactly when its write_all_vectored does.)
C15_VectoredWriteWritesAll ==
    (IsAppend /\ variant # "legacy" /\ last.result = "Ok") => AllBuffersWritten

\* C15: the same, of the adapter of the futures sinks alone
C15_VectoredWriteWritesAll_Futures ==
    (IsAppend /\ variant = "futures" /\ last.result = "Ok") => AllBuffersWritten

\* the vectored write of a sink took 8 of the 108 bytes of three buffers and
\* write_all_vectored returned Ok: the sink holds the chunk header only
C15_Witness_ShortWriteReturnedOk ==
    /\ IsAppend /\ variant \in {"sync", "tokio"}
    /\ last.io.o.kind = "short" /\ last.result = "Ok"
    /\ total_len(BufsToWrite) = U(108)
    /\ writer.pos = Add(last.pre.writer.pos, U(8))
    /\ VecLast(frame_sizes) = U(100)

----------------------------------------------------------------------------
(* Construction.  A third state machine: new is given its arguments from a *)
(* wider set, in a build with or without overflow checks.                  *)

HeaderWidths == { U(1), U(320), U(196615), U(178956971) }

HeaderHeights == { U(1), U(240), U(70000) }

HeaderRates == { Zero, U(1), U(30), U(60), U(1000001), U32_MAX }

HeaderParams ==
    { <<w, h, f>> : w \in HeaderWidths, h \in HeaderHeights, f \in HeaderRates }

\* new in a build: `width * 24` and the product of the stride and the height
\* are plain u32 multiplications, which panic on overflow where overflow
\* checks are compiled in and wrap where they are not; they are reached
\* after the test of fps and before the sink is written to
MjpegWriter_new_built(v, sink, p, io, overflow_checks) ==
    IF p[3] # Zero /\ overflow_checks /\ bi_size_image_overflows(p[1], p[2])
    THEN [result |-> "Panic", self |-> Unbuilt(sink), sink |-> sink]
    ELSE MjpegWriter_new(v, sink, p, io)

InitHeader == Init /\ phase = "none"

Construct ==
    /\ phase = "none"
    /\ last.op = "none"
    /\ \E p \in HeaderParams, io \in Scripts(1, FALSE), overflow_checks \in BOOLEAN :
          \E r \in {MjpegWriter_new_built(variant, writer, p, io, overflow_checks)} :
              /\ phase' = IF r.result = "Ok" THEN "open" ELSE "none"
              /\ writer' = r.sink
              /\ frame_sizes' = IF r.result = "Ok" THEN r.self.frame_sizes ELSE frame_sizes
              /\ jpeg_total_size' =
                     IF r.result = "Ok" THEN r.self.jpeg_total_size ELSE jpeg_total_size
              /\ estimated_file_size' =
                     IF r.result = "Ok" THEN r.self.estimated_file_size
                     ELSE estimated_file_size
              /\ last' = [op |-> "new", bufs |-> p, io |-> io, result |-> r.result,
                          pre |-> Self]
              /\ tally' = [tally EXCEPT !.faults = @ + Faulty(io)]
    /\ UNCHANGED variant

NextHeader == Construct

SpecHeader == InitHeader /\ [][NextHeader]_vars

IsNew == last.op = "new"

\* the arguments of the last new
WidthGiven == last.bufs[1]

HeightGiven == last.bufs[2]

FpsGiven == last.bufs[3]

\* the 256 bytes of the claim are in the sink, written from its start, the
\* sink standing behind them
HeaderAsClaimed ==
    /\ last.result = "Ok"
    /\ BLen(writer.data) = U(256)
    /\ writer.pos = U(256)
    /\ Expand(Slice(writer.data, U(0), U(4))) = <<82, 73, 70, 70>>
    /\ Expand(Slice(writer.data, U(8), U(4))) = <<65, 86, 73, 32>>
    /\ Field(writer.data, 128) = FpsGiven
    /\ \A off \in {64, 164, 184} :
          /\ Field(writer.data, off) = WidthGiven
          /\ Field(writer.data, off + 4) = HeightGiven
    /\ \A off \in {4, 48, 140, 240, 248} : Field(writer.data, off) = Zero

\* C16: constructing a writer (MjpegWriter of mjpeg_sync.rs, MjpegAsyncWriter)
\* with fps > 0, over a sink that does not fail, writes exactly 256 bytes to
\* the sink with no seek, in which bytes 0-3 are "RIFF", bytes 8-11 are
\* "AVI ", bytes 128-131 equal fps, the three (width, height) pairs at bytes
\* 64-71, 164-171 and 184-191 equal the supplied width and height
\* (little-endian u32), and the fields at 4-7, 48-51, 140-143, 240-243 and
\* 248-251 are zero placeholders.
C16_HeaderFields ==
    (IsNew /\ variant # "legacy" /\ FpsGiven # Zero /\ last.io = NoFault) =>
        HeaderAsClaimed

\* C16: the same, of the constructions that do not panic
C16_HeaderFields_NoOverflow ==
    (IsNew /\ variant # "legacy" /\ FpsGiven # Zero /\ last.io = NoFault
        /\ last.result # "Panic") => HeaderAsClaimed

\* a writer has been constructed for 196615 x 240 at 1,000,001 frames per
\* second: bytes 128-131 hold 1,000,001, bytes 64-71 the width and the height
C16_Witness_WideFields ==
    /\ IsNew /\ variant # "legacy" /\ last.result = "Ok"
    /\ last.bufs = <<U(196615), U(240), U(1000001)>>
    /\ BLen(writer.data) = U(256)
    /\ Expand(Slice(writer.data, U(128), U(4))) = <<65, 66, 15, 0>>
    /\ Expand(Slice(writer.data, U(64), U(8))) = <<7, 0, 3, 0, 240, 0, 0, 0>>

\* what the claim says of the last new
ConstructedAsClaimed ==
    /\ FpsGiven = Zero =>
          /\ last.result = "InvalidFrameSize"
          /\ writer = last.pre.writer
          /\ writer.data = <<>>
          /\ phase = "none"
    /\ (FpsGiven # Zero /\ last.io = NoFault) =>
          /\ last.result = "Ok"
          /\ phase = "open"
          /\ frame_sizes = <<>>
          /\ jpeg_total_size = Zero
          /\ estimated_file_size = U(256)

\* C17: constructing a writer with fps = 0 fails with InvalidFrameSize for
\* every width and height, in the sync and the async constructor (and in the
\* one of lib.rs), and the sink receives no bytes; with fps > 0 and a sink
\* that does not fail, construction returns a writer with frame_sizes empty,
\* jpeg_total_size = 0 and estimated_file_size = 256.
C17_Construction == IsNew => ConstructedAsClaimed

\* C17: the same, of the constructions that do not panic
C17_Construction_NoOverflow == (IsNew /\ last.result # "Panic") => ConstructedAsClaimed

\* new has been given fps = 0 with a width whose row does not fit 32 bits, in
\* a build with overflow checks: InvalidFrameSize, nothing in the sink
C17_Witness_ZeroFpsRejectedFirst ==
    /\ IsNew /\ FpsGiven = Zero
    /\ bi_size_image_overflows(WidthGiven, HeightGiven)
    /\ last.result = "InvalidFrameSize"
    /\ writer.data = <<>> /\ writer.pos = Zero

----------------------------------------------------------------------------
(* After finish *)

\* the finishes that had returned Ok when the last call began
FinishedBefore ==
    tally.finishes - (IF IsFinish /\ last.result = "Ok" THEN 1 ELSE 0)

\* C18: the writer follows the state machine Open -> (Open)* -> Finalized:
\* once finish has returned successfully the writer is in a terminal state
\* in which it accepts no further frames, i.e. no later add_frame,
\* add_frame_vectored or finish call changes frame_sizes or the sink content.
C18_FinalizedIsTerminal ==
    ((IsAppend \/ IsFinish) /\ FinishedBefore >= 1) =>
        /\ frame_sizes = last.pre.frame_sizes
        /\ writer.data = last.pre.writer.data

\* a finished writer has taken one more frame: the append returned Ok, the
\* frame is recorded and its chunk lies over the "movi" tag at offset 252,
\* where the last patch of finish left the sink
C18_Witness_FrameAfterFinish ==
    /\ IsAppend /\ last.result = "Ok" /\ last.io = NoFault
    /\ FinishedBefore = 1
    /\ VecLen(frame_sizes) = VecLen(last.pre.frame_sizes) + 1
    /\ last.pre.writer.pos = U(252)
    /\ Expand(Slice(writer.data, U(252), U(4))) = <<48, 48, 100, 99>>
    /\ Expand(Slice(last.pre.writer.data, U(252), U(4))) = <<109, 111, 118, 105>>

\* a finished writer has been finished again: a second idx1 chunk lies at
\* offset 252
C18_Witness_SecondFinish ==
    /\ IsFinish /\ last.result = "Ok" /\ tally.finishes = 2
    /\ Expand(Slice(last.pre.writer.data, U(252), U(4))) = <<109, 111, 118, 105>>
    /\ writer.data # last.pre.writer.data

----------------------------------------------------------------------------
(* The order of the sink operations *)

\* Each frame that AddFrame and AddFrameVectored offer has a padded length
\* of its own, so that frame_sizes names the frames taken, in the order of
\* the calls that returned Ok.
FrameOfSize(P) ==
    CHOOSE f \in { CatAll(g) : g \in Frames } : f # <<>> /\ padded(BLen(f)) = P

\* chunk_1 ++ ... ++ chunk_k of the frames of the sizes fs
RECURSIVE ChunksFrom(_, _)
ChunksFrom(fs, k) ==
    IF k > Len(fs) THEN <<>>
    ELSE Cat(ChunkOf(FrameOfSize(fs[k])), ChunksFrom(fs, k + 1))

\* C19: within one writer the sink operations of successive calls never
\* interleave or reorder: after construction and k successful appends the
\* sink content from offset 256 on is exactly chunk_1 ++ ... ++ chunk_k in
\* call order (the sink standing at its end), and all index and header-patch
\* writes of finish occur after every chunk write: no append writes its
\* chunk after a finish has written, and finish leaves the chunks as they
\* are and puts its index behind them.
C19_ChunksInCallOrder ==
    /\ (AllSucceeded /\ tally.finishes = 0) =>
          /\ BDrop(writer.data, U(256)) = ChunksFrom(VecElems(frame_sizes), 1)
          /\ writer.pos = BLen(writer.data)
    /\ (IsAppend /\ last.result = "Ok") => FinishedBefore = 0
    /\ (IsFinish /\ last.result = "Ok" /\ AllSucceeded /\ FinishedBefore = 0) =>
          /\ Slice(writer.data, U(256), Sub(BLen(last.pre.writer.data), U(256)))
                = BDrop(last.pre.writer.data, U(256))
          /\ Expand(Slice(writer.data, BLen(last.pre.writer.data), U(4)))
                = FOURCC_idx1

\* C19: the same, of the writers that are not used after their finish, over
\* sinks that did all they were asked
C19_ChunksInCallOrder_FullWrites ==
    /\ (AllSucceeded /\ tally.finishes = 0 /\ tally.faults = 0) =>
          /\ BDrop(writer.data, U(256)) = ChunksFrom(VecElems(frame_sizes), 1)
          /\ writer.pos = BLen(writer.data)
    /\ (IsFinish /\ last.result = "Ok" /\ AllSucceeded /\ FinishedBefore = 0
          /\ tally.faults = 0) =>
          /\ BDrop(last.pre.writer.data, U(256)) = ChunksFrom(VecElems(frame_sizes), 1)
          /\ Slice(writer.data, U(256), Sub(BLen(last.pre.writer.data), U(256)))
                = BDrop(last.pre.writer.data, U(256))
          /\ Expand(Slice(writer.data, BLen(last.pre.writer.data), U(4)))
                = FOURCC_idx1

\* the async writer over the futures adapter has taken frames of 100 and of
\* 101 bytes and has been finished: the 218 bytes from offset 256 are the
\* two chunks in call order and the idx1 chunk begins behind them, at 474
C19_Witness_TwoChunksThenIndex ==
    /\ variant = "futures"
    /\ IsFinish /\ last.result = "Ok" /\ AllSucceeded /\ tally.finishes = 1
    /\ VecElems(frame_sizes) = <<U(100), U(102)>>
    /\ Slice(writer.data, U(256), U(218))
          = Cat(ChunkOf(Payload(U(100))), ChunkOf(Payload(U(101))))
    /\ Expand(Slice(writer.data, U(474), U(4))) = FOURCC_idx1

----------------------------------------------------------------------------
(* Several writers.  A fourth state machine: the instances of              *)
(* MjpegAsyncWriter, each constructed over a sink of its own and driven by *)
(* a task of its own.  Every variable holds one value per instance.  A     *)
(* call runs from one await of a sink call to the next; between two of     *)
(* them the task is suspended and any other task may run.                  *)

Instances == {1, 2}

MaxConcurrentCalls == 2    \* calls made on each writer after its construction
MaxConcurrentFaults == 1   \* sink calls, of all the writers, that fail or come up short

\* one sink for all the instances
SinkOf_shared(i) == 1

\* the sink of instance i: the field `writer` of its struct, which new is
\* given by value
SinkOf(i) == i

\* the writer of instance i as the record the operations take
SelfOf(i) ==
    [writer |-> writer[SinkOf(i)], frame_sizes |-> frame_sizes[i],
     jpeg_total_size |-> jpeg_total_size[i],
     estimated_file_size |-> estimated_file_size[i]]

\* the sink calls a method awaits
WriteAll(buf) == [call |-> "write_all", buf |-> buf, pos |-> Zero]

WriteVectored(bufs) == [call |-> "write_vectored", buf |-> bufs, pos |-> Zero]

SeekTo(pos) == [call |-> "seek", buf |-> <<>>, pos |-> pos]

\* A method as the sequence of the sink calls it awaits when none of them
\* fails, the result it returns behind the last of them, and the padded
\* size it records then (add_frame_vectored).  No sink call: the method
\* returns without suspending.
Returns(result) == [reqs |-> <<>>, result |-> result, padded_size |-> Zero]

\* MjpegAsyncWriter::new
async_new_awaits(width, height, fps) ==
    IF fps = Zero THEN Returns("InvalidFrameSize")
    ELSE [reqs |-> <<WriteAll(Lit(create_header_template(fps, width, height)))>>,
          result |-> "Ok", padded_size |-> Zero]

\* AsyncWriter::write_all_vectored of the two implementations
AsyncWriter_write_all_vectored_awaits(ad, bufs) ==
    IF ad = "futures" THEN [k \in 1..Len(bufs) |-> WriteAll(bufs[k])]
    ELSE <<WriteVectored(bufs)>>

\* MjpegAsyncWriter::add_frame_vectored
async_add_frame_vectored_awaits(ad, self, bufs) ==
    Bind(total_len(bufs), LAMBDA frame_size :
    IF frame_size = Zero THEN Returns("InvalidFrameSize") ELSE
    Bind(async_check_limits(self, frame_size), LAMBDA lim :
    IF lim # "Ok" THEN Returns(lim) ELSE
    Bind(IsOdd(frame_size), LAMBDA odd :
    Bind(IF odd THEN Add(frame_size, U(1)) ELSE frame_size, LAMBDA padded_size :
    Bind(<<Lit(create_frame_chunk_header(as_u32(padded_size)))>> \o bufs
            \o (IF odd THEN <<Lit(<<0>>)>> ELSE <<>>), LAMBDA bufs_to_write :
    [reqs |-> AsyncWriter_write_all_vectored_awaits(ad, bufs_to_write),
     result |-> "Ok", padded_size |-> padded_size])))))

\* the index loop of finish: the entries, and FileSizeExceeded behind the
\* entry whose offset does not fit
RECURSIVE async_index_awaits(_, _, _)
async_index_awaits(sizes, j, offset) ==
    IF j > Len(sizes) THEN Returns("Ok") ELSE
    Bind(WriteAll(Lit(create_index_entry(offset, sizes[j]))), LAMBDA entry :
    Bind(checked_add_u32(offset, U(8)), LAMBDA o :
    Bind(checked_add_u32(o.v, sizes[j]), LAMBDA next :
    IF ~o.some \/ ~next.some
    THEN [reqs |-> <<entry>>, result |-> "FileSizeExceeded", padded_size |-> Zero] ELSE
    Bind(async_index_awaits(sizes, j + 1, next.v), LAMBDA rest :
    [reqs |-> <<entry>> \o rest.reqs, result |-> rest.result, padded_size |-> Zero]))))

\* for (pos, bytes) in sizes: a seek and a write_all each
RECURSIVE async_patch_awaits(_, _)
async_patch_awaits(sizes, p) ==
    IF p > Len(sizes) THEN <<>>
    ELSE <<SeekTo(U(sizes[p][1])), WriteAll(Lit(sizes[p][2]))>>
            \o async_patch_awaits(sizes, p + 1)

\* MjpegAsyncWriter::finish
async_finish_awaits(self) ==
    Bind(VecLen(self.frame_sizes), LAMBDA frame_count :
    Bind(calculate_file_sizes(self.frame_sizes, self.jpeg_total_size), LAMBDA file_sizes :
    IF file_sizes.result # "Ok" THEN Returns(file_sizes.result) ELSE
    Bind(WriteAll(Lit(create_idx_header(file_sizes.index_size))), LAMBDA idx_header :
    Bind(async_index_awaits(VecElems(self.frame_sizes), 1, U(4)), LAMBDA index :
    IF index.result # "Ok"
    THEN [reqs |-> <<idx_header>> \o index.reqs, result |-> index.result,
          padded_size |-> Zero] ELSE
    Bind(as_u32(U(frame_count)), LAMBDA frame_count_u32 :
    Bind(<< <<4, to_le_bytes(file_sizes.total_file_size)>>,
            <<48, to_le_bytes(frame_count_u32)>>,
            <<140, to_le_bytes(frame_count_u32)>>,
            <<240, to_le_bytes(frame_count_u32)>>,
            <<248, to_le_bytes(file_sizes.movi_size)>> >>, LAMBDA sizes :
    [reqs |-> <<idx_header>> \o index.reqs \o async_patch_awaits(sizes, 1),
     result |-> "Ok", padded_size |-> Zero]))))))

\* the method `op` called with `args` on the writer self
Awaits(ad, op, self, args) ==
    IF op = "new" THEN async_new_awaits(args[1], args[2], args[3])
    ELSE IF op = "finish" THEN async_finish_awaits(self)
    ELSE async_add_frame_vectored_awaits(ad, self, args)

\* one awaited sink call, on the sink it is made on
AsyncWriter_await(ad, sink, req, o) ==
    IF req.call = "seek" THEN AsyncWriter_seek(ad, sink, req.pos, o)
    ELSE IF req.call = "write_vectored" THEN tokio_write_all_vectored(sink, req.buf, o)
    ELSE AsyncWriter_write_all(ad, sink, req.buf, o)

\* what is called on the writers, and what their sinks do: each task
\* constructs its writer, adds frames and finishes the file, and ends at the
\* first call that returns an error
ConcurrentFrames ==
    { <<>>, << Payload(U(100)) >>, << Lit(<<255, 216>>), <<>>, Lit(<<9>>) >> }

ConcurrentCalls(i) ==
    IF phase[i] = "none"
    THEN IF last[i].op = "none"
         THEN { [op |-> "new", args |-> p] : p \in Params }
         ELSE {}
    ELSE IF \/ tally[i].steps >= MaxConcurrentCalls
            \/ last[i].op = "finish" \/ last[i].result # "Ok" THEN {}
    ELSE { [op |-> "add_frame_vectored", args |-> f] : f \in ConcurrentFrames }
            \cup { [op |-> "finish", args |-> <<>>] }

ConcurrentFaults == { [kind |-> "err", cut |-> 8], [kind |-> "short", cut |-> 8] }

\* what the sink may do at the call req, within the fault budget of all the
\* sinks together
ConcurrentOutcomes(req) ==
    {Okay} \cup
    IF tally[1].faults + tally[2].faults >= MaxConcurrentFaults THEN {}
    ELSE { o \in ConcurrentFaults :
              (o.kind = "short") = (req.call = "write_vectored") }

InitConcurrent ==
    /\ variant \in { <<"futures", "futures">>, <<"futures", "tokio">>,
                      <<"tokio", "tokio">> }
    /\ phase = [i \in Instances |-> "none"]
    /\ writer = [i \in Instances |-> [data |-> <<>>, pos |-> Zero]]
    /\ frame_sizes = [i \in Instances |-> <<>>]
    /\ jpeg_total_size = [i \in Instances |-> Zero]
    /\ estimated_file_size = [i \in Instances |-> Zero]
    /\ tally = [i \in Instances |-> [steps |-> 0, faults |-> 0]]
    /\ last = [i \in Instances |->
                 [op |-> "none", args |-> <<>>, io |-> NoFault, result |-> "Ok",
                  awaited |-> 0, pre |-> Unbuilt([data |-> <<>>, pos |-> Zero])]]

\* the task of instance i calls a method: it runs to the first await, or to
\* the return of a method that awaits nothing
Call ==
    \E i \in Instances :
        /\ last[i].result # "Pending"
        /\ \E c \in ConcurrentCalls(i) :
              \E m \in {Awaits(variant[i], c.op, SelfOf(i), c.args)} :
                 /\ last' = [last EXCEPT ![i] =
                               [op |-> c.op, args |-> c.args, io |-> NoFault,
                                result |-> IF m.reqs = <<>> THEN m.result
                                           ELSE "Pending",
                                awaited |-> 0, pre |-> SelfOf(i)]]
                 /\ tally' = [tally EXCEPT ![i].steps =
                                 @ + (IF c.op = "new" THEN 0 ELSE 1)]
        /\ UNCHANGED <<variant, phase, writer, frame_sizes, jpeg_total_size,
                       estimated_file_size>>

\* the task of instance i is resumed: the sink call it awaits is made on the
\* sink of the instance; the method returns if the call fails or is its last
Resume ==
    \E i \in Instances :
        /\ last[i].result = "Pending"
        /\ \E m \in {Awaits(variant[i], last[i].op, last[i].pre, last[i].args)} :
           \E o \in ConcurrentOutcomes(m.reqs[last[i].awaited + 1]) :
           \E w \in {AsyncWriter_await(variant[i], writer[SinkOf(i)],
                                       m.reqs[last[i].awaited + 1], o)} :
           \E returned \in {IF w.result # "Ok" THEN w.result
                            ELSE IF last[i].awaited + 1 = Len(m.reqs) THEN m.result
                            ELSE "Pending"} :
              /\ writer' = [writer EXCEPT ![SinkOf(i)] = w.sink]
              /\ last' = [last EXCEPT
                            ![i].awaited = @ + 1, ![i].result = returned,
                            ![i].io = IF o = Okay THEN @
                                      ELSE [at |-> last[i].awaited + 1, o |-> o]]
              /\ tally' = [tally EXCEPT ![i].faults =
                              @ + (IF o = Okay THEN 0 ELSE 1)]
              /\ IF returned = "Ok" /\ last[i].op = "new"
                 THEN /\ phase' = [phase EXCEPT ![i] = "open"]
                      /\ frame_sizes' = [frame_sizes EXCEPT ![i] = <<>>]
                      /\ jpeg_total_size' = [jpeg_total_size EXCEPT ![i] = Zero]
                      /\ estimated_file_size' =
                            [estimated_file_size EXCEPT ![i] = U(256)]
                 ELSE IF returned = "Ok" /\ last[i].op = "add_frame_vectored"
                 THEN /\ frame_sizes' =
                            [frame_sizes EXCEPT ![i] = VecPush(@, as_u32(m.padded_size))]
                      /\ jpeg_total_size' =
                            [jpeg_total_size EXCEPT ![i] = Add(@, m.padded_size)]
                      /\ estimated_file_size' =
                            [estimated_file_size EXCEPT ![i] =
                                Add(@, Add(Add(U(8), m.padded_size), U(16)))]
                      /\ UNCHANGED phase
                 ELSE UNCHANGED <<phase, frame_sizes, jpeg_total_size,
                                  estimated_file_size>>
        /\ UNCHANGED variant

NextConcurrent == Call \/ Resume

SpecConcurrent == InitConcurrent /\ [][NextConcurrent]_vars

\* the last call of instance i made on a writer that runs alone: the whole
\* method, from the writer as it was when the call was made
AloneOf(i) ==
    IF last[i].op = "new"
    THEN async_new(variant[i], last[i].pre.writer, last[i].args[1], last[i].args[2],
                   last[i].args[3], last[i].io)
    ELSE IF last[i].op = "finish"
    THEN async_finish(variant[i], last[i].pre, last[i].io)
    ELSE async_add_frame_vectored(variant[i], last[i].pre, last[i].args, last[i].io)

\* C20: several independent writer instances, each over its own sink, can be
\* driven concurrently under any interleaving of their suspension points:
\* whenever a writer is between two calls, whatever the other writers have
\* done meanwhile, the result of its last call, its sink content and position
\* and its frame_sizes, jpeg_total_size and estimated_file_size are those of
\* the same call made on the same writer running alone.
C20_IndependentWriters ==
    \A i \in Instances :
        (last[i].op # "none" /\ last[i].result # "Pending") =>
            /\ AloneOf(i).result = last[i].result
            /\ IF last[i].op = "new"
               THEN /\ AloneOf(i).sink = writer[SinkOf(i)]
                    /\ last[i].result = "Ok" => AloneOf(i).self = SelfOf(i)
               ELSE AloneOf(i).self = SelfOf(i)

\* writer 1 has been constructed, has taken a frame of 100 bytes and has
\* been finished, 388 bytes, while the task of writer 2 is suspended in the
\* middle of the finish of its own file of a frame of 3 bytes
C20_Witness_FinishedWhileOtherSuspended ==
    /\ last[1].op = "finish" /\ last[1].result = "Ok"
    /\ VecElems(frame_sizes[1]) = <<U(100)>>
    /\ BLen(writer[1].data) = U(388)
    /\ Field(writer[1].data, 48) = U(1)
    /\ last[2].op = "finish" /\ last[2].result = "Pending" /\ last[2].awaited = 3
    /\ VecElems(frame_sizes[2]) = <<U(4)>>
    /\ Field(writer[2].data, 48) = Zero

----------------------------------------------------------------------------
(* Build targets.  The lengths of the code are usize, whose width is that  *)
(* of the target, and the additions frame lengths go through (the sum of   *)
(* the fragments, frame_size + 1, 8 + padded_size) are plain `+`: on       *)
(* overflow they panic in a build with overflow checks and wrap in one     *)
(* without.  A fifth state machine runs the writers over the targets; its  *)
(* variable `variant` holds the writer and the target it is built for.     *)

Targets == [usize_bits : {32, 64}, overflow_checks : BOOLEAN]

\* a + b in usize: [v, overflowed].  No length of the model comes near 2^64.
usize_add(t, a, b) ==
    Bind(Add(a, b), LAMBDA s :
    IF t.usize_bits = 32 /\ Gt(s, U32_MAX) THEN [v |-> as_u32(s), overflowed |-> TRUE]
    ELSE [v |-> s, overflowed |-> FALSE])

\* bufs.iter().map(|s| s.len()).sum(): [v, overflowed]
RECURSIVE usize_sum(_, _, _, _)
usize_sum(t, bufs, i, acc) ==
    IF i > Len(bufs) THEN acc ELSE
    Bind(usize_add(t, acc.v, BLen(bufs[i])), LAMBDA s :
    usize_sum(t, bufs, i + 1, [v |-> s.v, overflowed |-> acc.overflowed \/ s.overflowed]))

\* if frame_size % 2 == 1 { frame_size + 1 } else { frame_size }
usize_padded(t, frame_size) ==
    IF IsOdd(frame_size) THEN usize_add(t, frame_size, U(1))
    ELSE [v |-> frame_size, overflowed |-> FALSE]

\* check_limits of MjpegWriter and of MjpegAsyncWriter, the same text, built
\* for the target t: the result, "Panic" where an addition overflows under
\* overflow checks
check_limits_built(t, self, frame_size) ==
    IF VecLen(self.frame_sizes) >= MAX_FRAME_COUNT THEN "FrameCountExceeded"
    ELSE IF Gt(frame_size, U32_MAX) THEN "FrameSizeExceeded" ELSE
    Bind(usize_padded(t, frame_size), LAMBDA padded_size :
    IF padded_size.overflowed /\ t.overflow_checks THEN "Panic" ELSE
    Bind(usize_add(t, U(8), padded_size.v), LAMBDA new_frame_data_size :
    IF new_frame_data_size.overflowed /\ t.overflow_checks THEN "Panic" ELSE
    Bind(Add(Add(self.estimated_file_size, new_frame_data_size.v), U(16)),
         LAMBDA estimated_new_size :
    IF Gt(estimated_new_size, MAX_AVI_FILE_SIZE) THEN "FileSizeExceeded"
    ELSE "Ok")))

\* an append that records the frame whether or not the sink took the chunk
add_frame_vectored_built_recording_failures(t, v, self, bufs, io) ==
    Bind(usize_sum(t, bufs, 1, [v |-> Zero, overflowed |-> FALSE]), LAMBDA frame_size :
    IF frame_size.overflowed /\ t.overflow_checks
    THEN [self |-> self, result |-> "Panic"] ELSE
    IF frame_size.v = Zero THEN [self |-> self, result |-> "InvalidFrameSize"] ELSE
    Bind(check_limits_built(t, self, frame_size.v), LAMBDA lim :
    IF lim # "Ok" THEN [self |-> self, result |-> lim] ELSE
    Bind(IsOdd(frame_size.v), LAMBDA odd :
    Bind(usize_padded(t, frame_size.v).v, LAMBDA padded_size :
    Bind(<<Lit(create_frame_chunk_header(as_u32(padded_size)))>> \o bufs
            \o (IF odd THEN <<Lit(<<0>>)>> ELSE <<>>), LAMBDA bufs_to_write :
    Bind(IF v = "sync"
         THEN Writer_write_all_vectored(self.writer, bufs_to_write, OutcomeAt(io, 1))
         ELSE AsyncWriter_write_all_vectored(v, self.writer, bufs_to_write, io),
         LAMBDA w :
    [self |-> record_frame(self, w.sink, padded_size), result |-> w.result]))))))

\* add_frame_vectored of the writer v (sync, futures, tokio) built for t
add_frame_vectored_built(t, v, self, bufs, io) ==
    Bind(usize_sum(t, bufs, 1, [v |-> Zero, overflowed |-> FALSE]), LAMBDA frame_size :
    IF frame_size.overflowed /\ t.overflow_checks
    THEN [self |-> self, result |-> "Panic"] ELSE
    IF frame_size.v = Zero THEN [self |-> self, result |-> "InvalidFrameSize"] ELSE
    Bind(check_limits_built(t, self, frame_size.v), LAMBDA lim :
    IF lim # "Ok" THEN [self |-> self, result |-> lim] ELSE
    Bind(IsOdd(frame_size.v), LAMBDA odd :
    Bind(usize_padded(t, frame_size.v).v, LAMBDA padded_size :
    Bind(as_u32(padded_size), LAMBDA padded_size_u32 :
    Bind(<<Lit(create_frame_chunk_header(padded_size_u32))>> \o bufs
            \o (IF odd THEN <<Lit(<<0>>)>> ELSE <<>>), LAMBDA bufs_to_write :
    Bind(IF v = "sync"
         THEN Writer_write_all_vectored(self.writer, bufs_to_write, OutcomeAt(io, 1))
         ELSE AsyncWriter_write_all_vectored(v, self.writer, bufs_to_write, io),
         LAMBDA w :
    IF w.result # "Ok" THEN Failed(self, w) ELSE
    [self |-> record_frame(self, w.sink, padded_size), result |-> "Ok"])))))))

\* the longest slice of a 32-bit target: isize::MAX bytes
LongestSlice == Payload(MAX_AVI_FILE_SIZE)

\* the frames given to the writers: fragments that exist on both targets
\* (the same slice may be given several times)
TargetFrames ==
    { << <<>> >>,                                           \* nothing
      << Payload(U(100)) >>,
      << Lit(<<255, 216>>), Lit(<<9>>) >>,
      << LongestSlice >>,
      << LongestSlice, LongestSlice >>,                     \* 2^32 - 2 bytes
      << LongestSlice, LongestSlice, Lit(<<9>>) >>,        \* 2^32 - 1
      << LongestSlice, LongestSlice, Lit(<<255, 216>>) >>, \* 2^32
      << LongestSlice, LongestSlice, Payload(U(102)) >> }  \* 2^32 + 100

MaxTargetSteps == 2    \* calls made on a writer
TargetPrefillGap == 1  \* a long-running writer starts this far below MAX_FRAME_COUNT

\* the scripts of an operation of n sink calls, within the fault budget: any
\* call may fail, a vectored write may also come up short
TargetScripts(n, vectored) ==
    {NoFault} \cup
    IF tally.faults >= MaxFaults THEN {}
    ELSE { io \in [at : 1..n, o : Faults] : io.o.kind = "short" => vectored }

\* the writers, constructed for 320 x 240 at 30 frames per second over a
\* sink that took the header, fresh or after a long run
InitTargets ==
    /\ variant \in [writer : Variants, target : Targets]
    /\ phase = "open"
    /\ \E w \in {MjpegWriter_new(variant.writer, [data |-> <<>>, pos |-> Zero],
                                 <<U(320), U(240), U(30)>>, NoFault).self,
                 Prefilled(variant.writer, MAX_FRAME_COUNT - TargetPrefillGap)} :
          /\ writer = w.writer
          /\ frame_sizes = w.frame_sizes
          /\ jpeg_total_size = w.jpeg_total_size
          /\ estimated_file_size = w.estimated_file_size
          /\ tally = [steps |-> 0, faults |-> 0, appends |-> VecLen(w.frame_sizes),
                      finishes |-> 0]
    /\ last = [op |-> "none", bufs |-> <<>>, io |-> NoFault, result |-> "Ok",
               pre |-> [writer |-> writer, frame_sizes |-> frame_sizes,
                        jpeg_total_size |-> jpeg_total_size,
                        estimated_file_size |-> estimated_file_size]]

\* an append: add_frame_vectored, or add_frame of the writer of lib.rs, whose
\* single slice no addition of either target overflows on; a panic ends the
\* use of the writer
AppendBuilt ==
    /\ phase = "open"
    /\ tally.steps < MaxTargetSteps
    /\ \E bufs \in IF variant.writer = "legacy"
                   THEN { f \in TargetFrames : Len(f) = 1 } ELSE TargetFrames :
          \E io \in TargetScripts(append_calls(variant.writer, bufs),
                                  variant.writer \in {"sync", "tokio"}) :
          \E r \in {IF variant.writer = "legacy" THEN lib_add_frame(Self, bufs[1], io)
                    ELSE add_frame_vectored_built(variant.target, variant.writer,
                                                  Self, bufs, io)} :
             /\ Returned(IF variant.writer = "legacy" THEN "add_frame"
                         ELSE "add_frame_vectored", bufs, r, io)
             /\ phase' = IF r.result = "Panic" THEN "panicked" ELSE phase
    /\ UNCHANGED variant

FinishBuilt ==
    /\ phase = "open"
    /\ tally.steps < MaxTargetSteps
    /\ VecLen(frame_sizes) <= MaxIndexed
    /\ \E io \in TargetScripts(finish_calls(Self), FALSE) :
          Returned("finish", <<>>, MjpegAviWriter_finish(variant.writer, Self, io), io)
    /\ UNCHANGED <<variant, phase>>

NextTargets == AppendBuilt \/ FinishBuilt

SpecTargets == InitTargets /\ [][NextTargets]_vars

\* on a 64-bit target the appends are those of the first state machine
BuiltAsBefore ==
    (last.op = "add_frame_vectored" /\ variant.target.usize_bits = 64) =>
        MjpegAviWriter_add_frame_vectored(variant.writer, last.pre, last.bufs, last.io)
            = [self |-> Self, result |-> last.result]

\* C21: whenever finish fails because of an arithmetic overflow or a size
\* out of range (FileSizeExceeded or FrameCountExceeded), it has written no
\* index bytes: the sink, content and position, is as it was before the
\* call, and so are frame_sizes, jpeg_total_size and estimated_file_size.
C21_OverflowBeforeIndex ==
    (last.op = "finish" /\ last.result \in {"FileSizeExceeded", "FrameCountExceeded"}) =>
        Self = last.pre

\* a writer built for a 32-bit target without overflow checks holds one
\* frame of 2^32 - 2 bytes, given as the same slice twice, and finish has
\* failed with FileSizeExceeded
C21_Witness_FinishOverflows ==
    /\ last.op = "finish" /\ last.result = "FileSizeExceeded"
    /\ variant.target = [usize_bits |-> 32, overflow_checks |-> FALSE]
    /\ VecElems(frame_sizes) = <<Sub(U32_MAX, U(1))>>
    /\ BLen(writer.data) = Add(U32_MAX, U(256 + 8 - 1))

\* the running estimate against the total that finish computes
EstimateIsTotal ==
    estimated_file_size =
        Add(Add(U(256), jpeg_total_size), U(24 * VecLen(frame_sizes)))

\* C22: estimated_file_size equals 256 + jpeg_total_size + 24 *
\* frame_sizes.len() in every reachable state, and therefore finish never
\* returns FileSizeExceeded or FrameCountExceeded after any sequence of
\* appends: it succeeds or fails with an I/O error of the sink.
C22_EstimateNeverDrifts ==
    /\ EstimateIsTotal
    /\ last.op = "finish" => last.result \in {"Ok", "Io"}

\* the same where usize has 64 bits or the additions are checked
C22_EstimateNeverDrifts_NoWrap ==
    (variant.target.usize_bits = 64 \/ variant.target.overflow_checks) =>
        C22_EstimateNeverDrifts

\* the estimate alone, on every target
C22_EstimateIsTotal_AllTargets == EstimateIsTotal

\* a 32-bit build without overflow checks has admitted a frame of 2^32 - 2
\* bytes: the estimate, still equal to 256 + jpeg_total_size + 24, stands
\* far above MAX_AVI_FILE_SIZE
C22_Witness_EstimateAboveLimit ==
    /\ last.op = "add_frame_vectored" /\ last.result = "Ok"
    /\ variant.target = [usize_bits |-> 32, overflow_checks |-> FALSE]
    /\ jpeg_total_size = Sub(U32_MAX, U(1))
    /\ estimated_file_size = Add(U32_MAX, U(256 + 24 - 1))
    /\ Gt(estimated_file_size, MAX_AVI_FILE_SIZE)

----------------------------------------------------------------------------
(* Failed and abandoned appends *)

\* C23: the state of the writer is changed only after the write of the whole
\* chunk has returned success: when the sink fails during an append, which
\* then returns MjpegError::Io, frame_sizes, jpeg_total_size and
\* estimated_file_size are as before the call and the frame is not recorded,
\* whatever part of the chunk the sink has taken.
C23_FailedAppendUnrecorded ==
    (IsAppend /\ last.result = "Io") =>
        /\ frame_sizes = last.pre.frame_sizes
        /\ jpeg_total_size = last.pre.jpeg_total_size
        /\ estimated_file_size = last.pre.estimated_file_size

\* the same for an asynchronous append that has been suspended at an await
\* and may never be resumed, in the state machine of the several writers
C23_AbandonedAppendUnrecorded ==
    \A i \in Instances :
        (last[i].op = "add_frame_vectored" /\ last[i].result = "Pending") =>
            /\ frame_sizes[i] = last[i].pre.frame_sizes
            /\ jpeg_total_size[i] = last[i].pre.jpeg_total_size
            /\ estimated_file_size[i] = last[i].pre.estimated_file_size

\* an append of 100 bytes to a writer that holds one frame (the async writer
\* over futures, the writer of lib.rs) failed after the sink had taken the 8
\* bytes of the chunk header: the sink is 8 bytes longer, the writer still
\* holds one frame
C23_Witness_HeaderWrittenFrameUnrecorded ==
    /\ IsAppend /\ last.result = "Io"
    /\ FrameLen = U(100)
    /\ VecLen(last.pre.frame_sizes) = 1 /\ VecLen(frame_sizes) = 1
    /\ BLen(writer.data) = Add(BLen(last.pre.writer.data), U(8))
    /\ estimated_file_size = last.pre.estimated_file_size

\* a suspended append of the first writer has put the chunk header and the
\* first fragment into the sink and has recorded nothing
C23_Witness_SuspendedMidChunk ==
    /\ last[1].op = "add_frame_vectored" /\ last[1].result = "Pending"
    /\ last[1].awaited = 2
    /\ BLen(writer[1].data) = U(256 + 8 + 2)
    /\ frame_sizes[1] = <<>>

----------------------------------------------------------------------------
(* The order of the checks of an append *)

\* the error the checks give in the order of the claim, "none" if all pass
FirstFailingCheck ==
    IF FrameLen = Zero THEN "InvalidFrameSize"
    ELSE IF RecordedBefore >= MAX_FRAME_COUNT THEN "FrameCountExceeded"
    ELSE IF Gt(FrameLen, U32_MAX) THEN "FrameSizeExceeded"
    ELSE IF Gt(Projection, MAX_AVI_FILE_SIZE) THEN "FileSizeExceeded"
    ELSE "none"

ChecksInOrder ==
    IsAppend =>
        IF FirstFailingCheck = "none" THEN last.result \in {"Ok", "Io"}
        ELSE last.result = FirstFailingCheck

\* C24: the checks of an append are applied in a fixed order and the first
\* failing one decides the error: a total length of zero gives
\* InvalidFrameSize, else 1,000,000 recorded frames give FrameCountExceeded,
\* else a raw length above 2^32 - 1 gives FrameSizeExceeded, else a
\* projection above 2^31 - 1 gives FileSizeExceeded; an append that passes
\* them all is not rejected.
C24_ChecksInOrder == ChecksInOrder

\* the same on the targets whose usize has 64 bits
C24_ChecksInOrder_Usize64 == variant.target.usize_bits = 64 => ChecksInOrder

\* a writer that holds 1,000,000 frames was given a frame of length zero and
\* has answered InvalidFrameSize
C24_Witness_EmptyAtFrameLimit ==
    /\ IsAppend /\ last.result = "InvalidFrameSize"
    /\ RecordedBefore = MAX_FRAME_COUNT
    /\ FrameLen = Zero

\* a writer that holds 1,000,000 frames was given a frame of 2^32 bytes and
\* has answered FrameCountExceeded
C24_Witness_OverlargeAtFrameLimit ==
    /\ IsAppend /\ last.result = "FrameCountExceeded"
    /\ RecordedBefore = MAX_FRAME_COUNT
    /\ FrameLen = Add(U32_MAX, U(1))
    /\ variant.target.usize_bits = 64

----------------------------------------------------------------------------
(* The sink operations of finish *)

\* the offsets of the five fields finish patches, in the order of the patches
PatchOffsets == <<4, 48, 140, 240, 248>>

\* the values finish puts into them for a writer self
PatchValues(self) ==
    LET n == VecLen(self.frame_sizes)
        file_sizes == calculate_file_sizes(self.frame_sizes, self.jpeg_total_size)
    IN  <<file_sizes.total_file_size, U(n), U(n), U(n), file_sizes.movi_size>>

\* the sink operations of a finish of the writer self in the order of the
\* claim: the idx1 header, the entries in frame order, a seek and a write
\* for each of the five fields
FinishOrder(self) ==
    LET fs == VecElems(self.frame_sizes)
    IN  <<WriteAll(Lit(create_idx_header(U(16 * Len(fs)))))>>
        \o [j \in 1..Len(fs) |->
               WriteAll(Lit(create_index_entry(OffsetOfFrame(fs, j - 1), fs[j])))]
        \o [q \in 1..10 |->
               IF q % 2 = 1 THEN SeekTo(U(PatchOffsets[(q + 1) \div 2]))
               ELSE WriteAll(Lit(to_le_bytes(PatchValues(self)[q \div 2])))]

\* the sink after the operation op with the outcome o
SinkAfter(sink, op, o) ==
    IF op.call = "seek" THEN io_seek(sink, op.pos, o).sink
    ELSE io_write_all(sink, op.buf, o).sink

\* the sink after the first k of the operations ops, none of which failed
RECURSIVE SinkAfterAll(_, _, _)
SinkAfterAll(sink, ops, k) ==
    IF k = 0 THEN sink ELSE SinkAfter(SinkAfterAll(sink, ops, k - 1), ops[k], Okay)

\* of a finish that failed at its k-th sink operation on a writer of n
\* frames: the fields before the failing operation are patched, those after
\* it are as they were
PatchedPrefix(k, n) ==
    \A j \in 1..5 :
        /\ k > n + 1 + 2 * j =>
              Field(writer.data, PatchOffsets[j]) = PatchValues(last.pre)[j]
        /\ k <= n + 2 * j =>
              Field(writer.data, PatchOffsets[j])
                  = Field(last.pre.writer.data, PatchOffsets[j])

\* C25: finish performs its sink operations in the fixed order idx1 header,
\* index entries in frame order, then the five seek + write patches at 4, 48,
\* 140, 240, 248, and stops at the first sink failure: after a failed finish
\* the sink is as the operations before the failing one and the failing one
\* left it, no operation having followed, and the patched header fields are
\* a prefix of that order (of a finish begun with the sink at its end, the
\* index otherwise covering header fields).
C25_FinishOrderStopsAtFailure ==
    (IsFinish /\ last.result \in {"Ok", "Io"}) =>
        LET ops == FinishOrder(last.pre)
            k == last.io.at
        IN  IF last.result = "Ok"
            THEN writer = SinkAfterAll(last.pre.writer, ops, Len(ops))
            ELSE /\ k \in 1..Len(ops)
                 /\ writer = SinkAfter(SinkAfterAll(last.pre.writer, ops, k - 1),
                                       ops[k], last.io.o)
                 /\ AtEndBefore => PatchedPrefix(k, RecordedBefore)

\* the first finish of a writer of one frame has failed at the seek of its
\* third patch: the fields at 4 and 48 are patched, those at 140, 240 and 248
\* still hold zero
C25_Witness_TwoOfFivePatched ==
    /\ IsFinish /\ last.result = "Io" /\ FinishedBefore = 0 /\ AtEndBefore
    /\ RecordedBefore = 1
    /\ last.io.at = 1 + 1 + 5
    /\ Field(writer.data, 4) = PatchValues(last.pre)[1]
    /\ Field(writer.data, 48) = U(1)
    /\ Field(writer.data, 140) = Zero
    /\ Field(writer.data, 240) = Zero
    /\ Field(writer.data, 248) = Zero

----------------------------------------------------------------------------
(* What a successful finish changes *)

\* the bytes x with the 4-byte field at off replaced by the value v
WithField(x, off, v) ==
    Cat(Cat(BTake(x, U(off)), Lit(to_le_bytes(v))), BDrop(x, U(off + 4)))

\* the bytes x with the first j of the five fields holding the values vs
RECURSIVE WithFields(_, _, _)
WithFields(x, vs, j) ==
    IF j = 0 THEN x ELSE WithField(WithFields(x, vs, j - 1), PatchOffsets[j], vs[j])

\* the index chunk of the writer self: the idx1 header and the entries
IndexChunk(self) ==
    LET ops == FinishOrder(self)
    IN  CatAll([k \in 1..(1 + VecLen(self.frame_sizes)) |-> ops[k].buf])

FinishChangesAsClaimed ==
    /\ frame_sizes = last.pre.frame_sizes
    /\ jpeg_total_size = last.pre.jpeg_total_size
    /\ estimated_file_size = last.pre.estimated_file_size
    /\ writer.data = Cat(WithFields(last.pre.writer.data, PatchValues(last.pre), 5),
                         IndexChunk(last.pre))

\* C26: a successful finish changes the content written before it only in
\* the five 4-byte fields at 4, 48, 140, 240 and 248 and appends the index
\* chunk at the end: every other byte of the header and every byte of every
\* frame chunk is as before, and frame_sizes, jpeg_total_size and
\* estimated_file_size are unchanged.
C26_FinishTouchesFieldsOnly ==
    (IsFinish /\ last.result = "Ok") => FinishChangesAsClaimed

\* the same of a finish begun with the sink at its end
C26_FinishTouchesFieldsOnly_AtEnd ==
    (IsFinish /\ last.result = "Ok" /\ AtEndBefore) => FinishChangesAsClaimed

\* the first finish of a writer that holds frames of 100 and 102 bytes: the
\* 474 bytes before it are unchanged but for the fields, 40 bytes of index
\* follow them
C26_Witness_TwoFramesThenIndex ==
    /\ IsFinish /\ last.result = "Ok" /\ AtEndBefore /\ FinishedBefore = 0
    /\ VecElems(frame_sizes) = <<U(100), U(102)>>
    /\ BLen(last.pre.writer.data) = U(256 + 108 + 110)
    /\ BLen(writer.data) = U(256 + 108 + 110 + 40)
    /\ Slice(writer.data, U(256), U(218)) = Slice(last.pre.writer.data, U(256), U(218))
    /\ Field(writer.data, 48) = U(2)

\* a second finish: the sink stood at 252, behind the last patch of the
\* first, and the index has been written over what was there
C26_Witness_IndexOverChunks ==
    /\ IsFinish /\ last.result = "Ok" /\ FinishedBefore = 1
    /\ last.pre.writer.pos = U(252)
    /\ Slice(writer.data, U(252), U(4)) = Lit(<<105, 100, 120, 49>>)
    /\ BLen(writer.data) = BLen(last.pre.writer.data)

-----------------------------------------------------------------------------
(* The layout of the index chunk *)

\* the 8 + 16 n bytes the last call wrote from the position it began at
IndexBytes(n) == Slice(writer.data, last.pre.writer.pos, U(8 + 16 * n))

C27_Witness_EmptyIndex ==
    /\ IsFinish /\ last.result = "Ok" /\ AtEndBefore
    /\ tally.appends = 0
    /\ BLen(writer.data) = U(264)
    /\ Expand(IndexBytes(0)) = <<105, 100, 120, 49, 0, 0, 0, 0>>

-----------------------------------------------------------------------------
(* The padded length as a u32 *)

\* the last append was accepted, and what it stored and wrote as the size of
\* the frame is the padded length of the frame it was given
StoredLengthIsTrue ==
    (IsAppend /\ last.result = "Ok") =>
        /\ Le(PaddedLen, U32_MAX)
        /\ VecLen(frame_sizes) = RecordedBefore + 1
        /\ VecLast(frame_sizes) = PaddedLen
        /\ last.io = NoFault =>
              FieldAt(writer.data, Add(last.pre.writer.pos, U(4))) = PaddedLen

\* C28: for every accepted frame the conversion of the padded length to u32
\* loses nothing: the value stored in frame_sizes and written in the chunk
\* header is the true padded length, never that length modulo 2^32, for every
\* raw length up to and including 2^32 - 1, a frame whose padded length does
\* not fit in a u32 being rejected beforehand.
C28_PaddedLengthLossless == Le(FrameLen, U32_MAX) => StoredLengthIsTrue

\* the same where usize has 64 bits or the additions are checked
C28_PaddedLengthLossless_NoWrap ==
    (variant.target.usize_bits = 64 \/ variant.target.overflow_checks) =>
        StoredLengthIsTrue

\* a 32-bit build without overflow checks has accepted a frame of 2^32 - 1
\* bytes, whose padded length is 2^32: it has stored and written the size 0
C28_Witness_StoredZero ==
    /\ last.op = "add_frame_vectored" /\ last.result = "Ok"
    /\ variant.target = [usize_bits |-> 32, overflow_checks |-> FALSE]
    /\ FrameLen = U32_MAX
    /\ PaddedLen = Add(U32_MAX, U(1))
    /\ VecLast(frame_sizes) = Zero
    /\ last.io = NoFault
    /\ FieldAt(writer.data, Add(last.pre.writer.pos, U(4))) = Zero

\* a frame of 2^32 - 1 bytes was rejected where usize has 64 bits
C28_Witness_RejectedOn64 ==
    /\ IsAppend /\ last.result = "FileSizeExceeded"
    /\ variant.target.usize_bits = 64
    /\ FrameLen = U32_MAX
    /\ RecordedBefore = 0

-----------------------------------------------------------------------------
(* The computed fields of the header *)

\* a * b where the product is below 2^47
ExactMul(a, b) ==
    LET low == LimbMul(a[2], b[2])
    IN  <<a[1] * b[1] * 65536 + a[1] * b[2] + a[2] * b[1] + low[1], low[2]>>

\* the row of a 24-bit image in bytes, rounded up to a multiple of 4
Stride(width) ==
    LET row == Add(MulSmall(width, 3), U(3))
    IN  Sub(row, U(ModSmall(row, 4)))

\* the stride times the height, as numbers
ExactImageSize(width, height) == ExactMul(Stride(width), height)

\* the last new wrote a header whose bytes 200-203 hold the image size
ImageSizeAsClaimed ==
    /\ last.result = "Ok"
    /\ ~bi_size_image_overflows(WidthGiven, HeightGiven)
    /\ Field(writer.data, 200) = ExactImageSize(WidthGiven, HeightGiven)

\* C29: for all width > 0, height > 0 and fps > 0, header construction
\* computes the bitmap image size field (bytes 200-203) as
\* ((width * 24 / 8 + 3) & ~3) * height, the 24-bit row stride rounded up to
\* a multiple of 4 times the height, and neither width * 24 nor the stride
\* times the height overflows 32 bits.
C29_ImageSizeWithoutOverflow ==
    (IsNew /\ WidthGiven # Zero /\ HeightGiven # Zero /\ FpsGiven # Zero
        /\ last.io = NoFault) => ImageSizeAsClaimed

\* the same for the widths and heights whose products fit in 32 bits
C29_ImageSize_NoOverflow ==
    (IsNew /\ WidthGiven # Zero /\ HeightGiven # Zero /\ FpsGiven # Zero
        /\ last.io = NoFault
        /\ Le(MulSmall(WidthGiven, 24), U32_MAX)
        /\ Le(ExactImageSize(WidthGiven, HeightGiven), U32_MAX)) =>
            ImageSizeAsClaimed

\* a build without overflow checks has constructed a writer for 196615 x
\* 70000: the stride 589848 times 70000 is 41,289,360,000, and bytes 200-203
\* hold that number modulo 2^32
C29_Witness_WrappedImageSize ==
    /\ IsNew /\ last.result = "Ok" /\ last.io = NoFault
    /\ last.bufs = <<U(196615), U(70000), U(30)>>
    /\ Stride(WidthGiven) = U(589848)
    /\ Gt(ExactImageSize(WidthGiven, HeightGiven), U32_MAX)
    /\ Field(writer.data, 200) = as_u32(ExactImageSize(WidthGiven, HeightGiven))

\* a build with overflow checks has panicked on the same arguments
C29_Witness_PanickedImageSize ==
    /\ IsNew /\ last.result = "Panic"
    /\ last.bufs = <<U(196615), U(70000), U(30)>>
    /\ writer.data = <<>>

\* 320 x 240: bytes 200-203 hold 960 * 240 = 230400
C29_Witness_PlainImageSize ==
    /\ IsNew /\ last.result = "Ok" /\ last.io = NoFault
    /\ last.bufs = <<U(320), U(240), U(30)>>
    /\ Field(writer.data, 200) = U(230400)

\* C30: for every fps > 0 the microseconds-per-frame field (bytes 32-35) is
\* floor(1_000_000 / fps), the quotient of the truncating division and never
\* the one rounded up: 0 for every fps > 1_000_000 and 33333 for fps = 30.
C30_MicrosecPerFrame ==
    (IsNew /\ FpsGiven # Zero /\ last.result = "Ok" /\ last.io = NoFault) =>
        LET q == Field(writer.data, 32)
        IN  /\ Le(q, U(1000000))
            /\ Gt(FpsGiven, U(1000000)) => q = Zero
            /\ Le(FpsGiven, U(1000000)) =>
                  /\ Small(q) * Small(FpsGiven) <= 1000000
                  /\ (Small(q) + 1) * Small(FpsGiven) > 1000000
            /\ FpsGiven = U(30) => q = U(33333)

\* 60 frames per second: the field holds 16666, the quotient 16666.67 cut off
C30_Witness_Truncated ==
    /\ IsNew /\ last.result = "Ok" /\ last.io = NoFault
    /\ FpsGiven = U(60)
    /\ Field(writer.data, 32) = U(16666)

\* 1,000,001 frames per second: the field holds 0
C30_Witness_ZeroAboveMillion ==
    /\ IsNew /\ last.result = "Ok" /\ last.io = NoFault
    /\ FpsGiven = U(1000001)
    /\ Field(writer.data, 32) = Zero

-----------------------------------------------------------------------------
(* The writer of lib.rs beside the writer of mjpeg_sync.rs.  A sixth state  *)
(* machine: the two writers are constructed with the same arguments, each   *)
(* over an empty sink of its own that takes all it is given, and every call *)
(* is made on both.  Each variable holds a pair: the value of the writer of *)
(* lib.rs first, the one of the writer of mjpeg_sync.rs second.             *)

Pair == <<"legacy", "sync">>

MaxPairSteps == 3   \* calls made on the two writers after their construction

\* (width, height, fps) given to both constructors
PairParams ==
    { <<U(320), U(240), U(30)>>, <<U(320), U(240), Zero>>,
      <<U(1), U(1), U(1)>>, <<U(640), U(480), U(1000001)>> }

\* writer i of the pair as the record the operations take
PairSelf(i) ==
    [writer |-> writer[i], frame_sizes |-> frame_sizes[i],
     jpeg_total_size |-> jpeg_total_size[i],
     estimated_file_size |-> estimated_file_size[i]]

InitPair ==
    /\ variant = Pair
    /\ phase = "none"
    /\ writer = [i \in 1..2 |-> [data |-> <<>>, pos |-> Zero]]
    /\ frame_sizes = [i \in 1..2 |-> <<>>]
    /\ jpeg_total_size = [i \in 1..2 |-> Zero]
    /\ estimated_file_size = [i \in 1..2 |-> Zero]
    /\ tally = [steps |-> 0, appends |-> 0, finishes |-> 0]
    /\ last = [op |-> "none", bufs |-> <<>>, io |-> NoFault,
               result |-> <<"Ok", "Ok">>,
               pre |-> [i \in 1..2 |-> Unbuilt([data |-> <<>>, pos |-> Zero])]]

\* both calls have returned: r[i] is [result, self] of writer i
ReturnedBoth(op, bufs, r) ==
    /\ writer' = [i \in 1..2 |-> r[i].self.writer]
    /\ frame_sizes' = [i \in 1..2 |-> r[i].self.frame_sizes]
    /\ jpeg_total_size' = [i \in 1..2 |-> r[i].self.jpeg_total_size]
    /\ estimated_file_size' = [i \in 1..2 |-> r[i].self.estimated_file_size]
    /\ last' = [op |-> op, bufs |-> bufs, io |-> NoFault,
                result |-> [i \in 1..2 |-> r[i].result],
                pre |-> [i \in 1..2 |-> PairSelf(i)]]
    /\ tally' = [steps |-> tally.steps + 1,
                 appends |-> tally.appends +
                     (IF op = "add_frame" /\ r[2].result = "Ok" THEN 1 ELSE 0),
                 finishes |-> tally.finishes +
                     (IF op = "finish" /\ r[2].result = "Ok" THEN 1 ELSE 0)]

NewBoth ==
    /\ phase = "none"
    /\ last.op = "none"
    /\ \E p \in PairParams :
          \E r \in {[i \in 1..2 |-> MjpegWriter_new(variant[i], writer[i], p, NoFault)]} :
              /\ phase' = IF r[1].result = "Ok" /\ r[2].result = "Ok"
                          THEN "open" ELSE "none"
              /\ writer' = [i \in 1..2 |-> r[i].sink]
              /\ frame_sizes' = [i \in 1..2 |-> r[i].self.frame_sizes]
              /\ jpeg_total_size' = [i \in 1..2 |-> r[i].self.jpeg_total_size]
              /\ estimated_file_size' =
                     [i \in 1..2 |-> IF r[i].result = "Ok"
                                     THEN r[i].self.estimated_file_size
                                     ELSE estimated_file_size[i]]
              /\ last' = [op |-> "new", bufs |-> p, io |-> NoFault,
                          result |-> [i \in 1..2 |-> r[i].result],
                          pre |-> [i \in 1..2 |-> PairSelf(i)]]
              /\ tally' = tally
    /\ UNCHANGED variant

AddFrameBoth ==
    /\ phase = "open"
    /\ tally.steps < MaxPairSteps
    /\ \E b \in Slices :
          ReturnedBoth("add_frame", <<b>>,
              [i \in 1..2 |-> MjpegAviWriter_add_frame(variant[i], PairSelf(i), b, NoFault)])
    /\ UNCHANGED <<variant, phase>>

FinishBoth ==
    /\ phase = "open"
    /\ tally.steps < MaxPairSteps
    /\ VecLen(frame_sizes[2]) <= MaxIndexed
    /\ ReturnedBoth("finish", <<>>,
           [i \in 1..2 |-> MjpegAviWriter_finish(variant[i], PairSelf(i), NoFault)])
    /\ UNCHANGED <<variant, phase>>

NextPair == NewBoth \/ AddFrameBoth \/ FinishBoth

SpecPair == InitPair /\ [][NextPair]_vars

\* the two writers have returned the same from the last call, and the two
\* sinks hold the same bytes
SameResults == last.result[1] = last.result[2]

SameSinks == writer[1] = writer[2]

\* the sink of writer i with bytes 128-135 of its header blanked
ApartFromRate(i) == WithField(WithField(writer[i].data, 128, Zero), 132, Zero)

\* C31: the writer of lib.rs (header built field by field, three write_all
\* calls per frame, sizes computed after the index) and the writer of
\* mjpeg_sync.rs (header from the template, one vectored write, sizes
\* computed first) are equivalent: for the same (width, height, fps) and the
\* same sequence of add_frame calls followed by finish they return the same
\* results and produce byte-identical sink content.  Stated of sinks that take
\* all they are given, after every call.
C31_LegacyAsSync == last.op # "none" => (SameResults /\ SameSinks)

\* the same apart from bytes 128-135 of the header: the results, the
\* positions of the sinks, every other byte, and the accounts of the writers
C31_LegacyAsSync_ApartFromRate ==
    last.op # "none" =>
        /\ SameResults
        /\ writer[1].pos = writer[2].pos
        /\ frame_sizes[1] = frame_sizes[2]
        /\ jpeg_total_size[1] = jpeg_total_size[2]
        /\ estimated_file_size[1] = estimated_file_size[2]
        /\ IF phase = "open"
           THEN ApartFromRate(1) = ApartFromRate(2)
           ELSE /\ writer[1].data = <<>>
                /\ writer[2].data = <<>>

\* both writers were constructed for 320 x 240 at 30 frames per second: the
\* header of lib.rs holds the scale 1 at bytes 128-131 and the rate 30 at
\* bytes 132-135, the header of mjpeg_sync.rs 30 and 0
C31_Witness_RateInScaleSlot ==
    /\ last.op = "new" /\ last.bufs = <<U(320), U(240), U(30)>>
    /\ last.result = <<"Ok", "Ok">>
    /\ Field(writer[1].data, 128) = U(1) /\ Field(writer[1].data, 132) = U(30)
    /\ Field(writer[2].data, 128) = U(30) /\ Field(writer[2].data, 132) = Zero
    /\ ApartFromRate(1) = ApartFromRate(2)

\* frames of 100 and 101 bytes were appended to both and both were finished:
\* two files of 514 bytes that differ in bytes 128-135 and nowhere else
C31_Witness_TwoFilesOneDifference ==
    /\ last.op = "finish" /\ last.result = <<"Ok", "Ok">>
    /\ tally = [steps |-> 3, appends |-> 2, finishes |-> 1]
    /\ VecElems(frame_sizes[1]) = <<U(100), U(102)>>
    /\ BLen(writer[1].data) = U(514) /\ BLen(writer[2].data) = U(514)
    /\ writer[1].data # writer[2].data
    /\ ApartFromRate(1) = ApartFromRate(2)

====
